---- MODULE Spec2Model ----
(***************************************************************************)
(* Demand paging with swap for xv6-riscv (vm.c, kalloc.c, trap.c).         *)
(*                                                                         *)
(* Physical memory is a small array of 4 KiB frames; every frame holds     *)
(* NIdx 64-bit words, which are read as PTEs when the frame is walked as a *)
(* page-table node and as data when it is a user page.  Kernel functions   *)
(* are operators on a record S of the kernel's globals; every action of    *)
(* the specification runs one handler to completion on one hart.           *)
(***************************************************************************)
EXTENDS Integers, Sequences, FiniteSets, TLC

----------------------------------------------------------------------------
(* Bounds of the model *)

NFrames == 8
MaxPages == 2
NProcs == 2
MaxVal == 1
MaxKHeld == 1
MAX_SWAP_PAGES == 5
MaxOps == 7
NHarts == 2

----------------------------------------------------------------------------
(* Program constants *)

PGSIZE == 4096
PTE_V == 1
PTE_R == 2
PTE_W == 4
PTE_X == 8
PTE_U == 16
PTE_A == 64
PTE_D == 128
PTE_SWAP == 512
FlagSpan == 1024
L1Span == 2097152
L2Span == 1073741824
TopIdx == 256
NPTE == 512
FaultOff == 8

Null == 0 - 1

\* memlayout.h scaled down: the kernel image is frame KernBaseFrame, RAM that
\* kinit() hands to kfree() are the NFrames frames above it.
KernBaseFrame == NFrames + 1
KERNBASE == KernBaseFrame * PGSIZE
EndPA == (KernBaseFrame + 1) * PGSIZE
PhysTopFrame == KernBaseFrame + NFrames + 1
PHYSTOP == PhysTopFrame * PGSIZE

Frames == (KernBaseFrame + 1) .. (PhysTopFrame - 1)
PageIdx == 0 .. (PhysTopFrame - 1)
Idx == 0 .. (MaxPages - 1)
Procs == 1 .. NProcs
Slots == 0 .. (MAX_SWAP_PAGES - 1)

\* memset(pa, 1, PGSIZE) and memset(pa, 5, PGSIZE) seen as 64-bit words:
\* 0x0101010101010101 and 0x0505050505050505.  Their low ten bits are kept
\* exactly; the bits above stand for a physical page number outside RAM.
JunkPPN == 2 * PhysTopFrame
Junk1 == JunkPPN * FlagSpan + 257
Junk5 == (JunkPPN + 1) * FlagSpan + 261
\* what the disk holds outside the swap area
DiskJunk == (JunkPPN + 2) * FlagSpan

ZeroPage == [i \in Idx |-> 0]
Fill(w) == [i \in Idx |-> w]

----------------------------------------------------------------------------
(* riscv.h *)

Has(pte, bit) == (pte \div bit) % 2 = 1
PTE_FLAGS(pte) == pte % FlagSpan
PA2PTE(pa) == (pa \div PGSIZE) * FlagSpan
PTE2PA(pte) == (pte \div FlagSpan) * PGSIZE
PTE2PPN(pte) == pte \div FlagSpan
PGROUNDDOWN(a) == (a \div PGSIZE) * PGSIZE
PX(level, va) ==
  IF level = 2 THEN (va \div L2Span) % NPTE
  ELSE IF level = 1 THEN (va \div L1Span) % NPTE
  ELSE (va \div PGSIZE) % NPTE
\* va >= MAXVA, with MAXVA = 1 << 38
AboveMAXVA(va) == (va \div L2Span) >= TopIdx
\* flags & mask, for a mask that is a union of the single bits in bits
MaskBits(flags, bits) ==
  LET RECURSIVE Sum(_)
      Sum(bs) == IF bs = {} THEN 0
                 ELSE LET b == CHOOSE x \in bs : TRUE
                      IN (IF Has(flags, b) THEN b ELSE 0) + Sum(bs \ {b})
  IN Sum(bits)
BitOr(a, b) ==
  LET RECURSIVE Sum(_)
      Sum(bs) == IF bs = {} THEN 0
                 ELSE LET x == CHOOSE y \in bs : TRUE
                      IN (IF Has(a, x) \/ Has(b, x) THEN x ELSE 0) + Sum(bs \ {x})
  IN Sum({1, 2, 4, 8, 16, 32, 64, 128, 256, 512})
SetBit(pte, bit) == IF Has(pte, bit) THEN pte ELSE pte + bit
ClearBit(pte, bit) == IF Has(pte, bit) THEN pte - bit ELSE pte
RWXU == {PTE_R, PTE_W, PTE_X, PTE_U}

InRAM(pa) == pa >= EndPA /\ pa < PHYSTOP

----------------------------------------------------------------------------
(* Kernel state as a record, and the halting of the kernel *)

NoPage == [is_page_table |-> FALSE, in_lru |-> FALSE, pagetable |-> 0,
           vaddr |-> 0, prev |-> Null, next |-> Null]

Panic(S, why) == IF S.panicked # "" THEN S ELSE [S EXCEPT !.panicked = why]

\* spinlock: taking a lock this hart already holds never returns
\* the locks, in the order they are meant to be taken
LockOrder ==
  <<"kmem", "page_lock", "lru_lock", "pte_lock", "swap_bitmap_lock", "swap_stats_lock">>

LockRank(lk) == CHOOSE i \in 1 .. Len(LockOrder) : LockOrder[i] = lk

\* a lock taken while one later in the order is held
OutOfOrder(S, lk) == \E h \in S.held : LockRank(h) > LockRank(lk)

acquire(S, lk) ==
  IF S.panicked # "" THEN S
  ELSE IF lk \in S.held THEN Panic(S, "acquire")
  ELSE [S EXCEPT !.held = @ \cup {lk},
                 !.g_ev = IF OutOfOrder(S, lk) THEN @ \cup {"lock: out of order"} ELSE @]

release(S, lk) ==
  IF S.panicked # "" THEN S
  ELSE IF lk \notin S.held THEN Panic(S, "release")
  ELSE [S EXCEPT !.held = @ \ {lk}]

----------------------------------------------------------------------------
(* kalloc.c: kfree *)

kfree_push(S, pa) ==
  IF S.panicked # "" THEN S ELSE [S EXCEPT !.freelist = <<pa>> \o @]

kfree(S, pa) ==
  IF S.panicked # "" THEN S
  ELSE IF pa % PGSIZE # 0 \/ pa < EndPA \/ pa >= PHYSTOP THEN Panic(S, "kfree")
  ELSE release(kfree_push(acquire([S EXCEPT !.mem[pa \div PGSIZE] = Fill(Junk1)],
                                  "kmem"), pa),
               "kmem")

----------------------------------------------------------------------------
(* vm.c: the LRU list *)

\* walks next from the head; the commented-out printf makes the release of
\* lru_lock the body of `if (num_lru_pages != 0)`
check_lru_walk(S) ==
  IF S.panicked # "" THEN S
  ELSE IF S.lru_head = Null
       THEN release(IF S.num_lru_pages # 0 THEN release(S, "lru_lock") ELSE S,
                    "page_lock")
       ELSE release(release(S, "lru_lock"), "page_lock")

check_lru_consistency(S) == check_lru_walk(acquire(acquire(S, "page_lock"), "lru_lock"))

\* lru_remove that forgets `p->in_lru = 0`
lru_remove_body_flag(S, p) ==
  IF S.panicked # "" THEN S
  ELSE IF ~S.pages[p].in_lru THEN S
  ELSE
    LET only == S.lru_head = p /\ S.lru_head = S.lru_tail
        h == IF only THEN Null
             ELSE IF S.lru_head = p THEN S.pages[p].next ELSE S.lru_head
        t == IF only THEN Null
             ELSE IF S.lru_tail = p THEN S.pages[p].prev ELSE S.lru_tail
        pg1 == IF ~only /\ h # Null THEN [S.pages EXCEPT ![h].prev = t] ELSE S.pages
        pg2 == IF ~only /\ t # Null THEN [pg1 EXCEPT ![t].next = h] ELSE pg1
        pg3 == [pg2 EXCEPT ![p].prev = Null, ![p].next = Null, ![p].vaddr = 0]
    IN [S EXCEPT !.lru_head = h, !.lru_tail = t, !.pages = pg3,
                 !.num_lru_pages = @ - 1]

\* the body of lru_remove between taking and dropping the locks
lru_remove_body(S, p) ==
  IF S.panicked # "" THEN S
  ELSE IF ~S.pages[p].in_lru THEN S
  ELSE
    LET only == S.lru_head = p /\ S.lru_head = S.lru_tail
        h == IF only THEN Null
             ELSE IF S.lru_head = p THEN S.pages[p].next ELSE S.lru_head
        t == IF only THEN Null
             ELSE IF S.lru_tail = p THEN S.pages[p].prev ELSE S.lru_tail
        pg1 == IF ~only /\ h # Null THEN [S.pages EXCEPT ![h].prev = t] ELSE S.pages
        pg2 == IF ~only /\ t # Null THEN [pg1 EXCEPT ![t].next = h] ELSE pg1
        pg3 == [pg2 EXCEPT ![p].prev = Null, ![p].next = Null,
                           ![p].in_lru = FALSE, ![p].vaddr = 0]
    IN [S EXCEPT !.lru_head = h, !.lru_tail = t, !.pages = pg3,
                 !.num_lru_pages = @ - 1]

lru_remove(S, p, use_lock) ==
  IF S.panicked # "" THEN S
  ELSE IF p = Null THEN Panic(S, "kerneltrap")
  ELSE IF use_lock
       THEN check_lru_consistency(
              release(release(
                lru_remove_body(acquire(acquire(S, "page_lock"), "lru_lock"), p),
                "lru_lock"), "page_lock"))
       ELSE lru_remove_body(S, p)

\* the frames met from the head along next, until the head comes round again
RECURSIVE LruRest(_, _, _)
LruRest(S, p, n) ==
  IF p = Null \/ p = S.lru_head \/ n = 0 THEN <<>>
  ELSE <<p>> \o LruRest(S, S.pages[p].next, n - 1)
LruOrder(S) ==
  IF S.lru_head = Null THEN <<>>
  ELSE <<S.lru_head>> \o LruRest(S, S.pages[S.lru_head].next, PhysTopFrame)

\* ... and from the tail along prev
RECURSIVE LruRestBack(_, _, _)
LruRestBack(S, p, n) ==
  IF p = Null \/ p = S.lru_tail \/ n = 0 THEN <<>>
  ELSE <<p>> \o LruRestBack(S, S.pages[p].prev, n - 1)
LruOrderBack(S) ==
  IF S.lru_tail = Null THEN <<>>
  ELSE <<S.lru_tail>> \o LruRestBack(S, S.pages[S.lru_tail].prev, PhysTopFrame)

Linked(S) == {f \in PageIdx : S.pages[f].in_lru}
InSeq(x, q) == \E i \in 1 .. Len(q) : q[i] = x
Without(q, p) == SelectSeq(q, LAMBDA x : x # p)

\* g_add collects what the lru_add calls of the running handler did to the
\* list: "moved" is a relocation of a linked frame to the tail that keeps the
\* frames, their order and the count, "linked" a fresh frame put at the tail
\* with the count one up, "bad" anything else
lru_add_outcome(B, A, p) ==
  IF B.pages[p].in_lru
  THEN IF /\ A.lru_tail = p
          /\ Linked(A) = Linked(B)
          /\ Without(LruOrder(A), p) = Without(LruOrder(B), p)
          /\ LruOrder(A) = Without(LruOrder(B), p) \o <<p>>
          /\ A.num_lru_pages = B.num_lru_pages
       THEN "moved" ELSE "bad"
  ELSE IF /\ A.lru_tail = p
          /\ Linked(A) = Linked(B) \cup {p}
          /\ LruOrder(A) = LruOrder(B) \o <<p>>
          /\ A.num_lru_pages = B.num_lru_pages + 1
       THEN "linked" ELSE "bad"

lru_add_note(B, A, p) ==
  IF A.panicked # "" THEN A ELSE [A EXCEPT !.g_add = @ \cup {lru_add_outcome(B, A, p)}]

\* lines 102-120: unlink p when it is already in the list
lru_add_unlink(S, p) ==
  LET pv == S.pages[p].prev
      nx == S.pages[p].next
  IN IF S.lru_head = p /\ nx = Null /\ pv = Null THEN S
     ELSE
       LET pg1 == IF pv # Null THEN [S.pages EXCEPT ![pv].next = nx] ELSE S.pages
           pg2 == IF nx # Null THEN [pg1 EXCEPT ![nx].prev = pv] ELSE pg1
           h == IF S.lru_head = p THEN nx ELSE S.lru_head
           t == IF S.lru_tail = p THEN pv ELSE S.lru_tail
           pg3 == [pg2 EXCEPT ![p].prev = Null, ![p].next = Null, ![p].in_lru = FALSE]
       IN [S EXCEPT !.pages = pg3, !.lru_head = h, !.lru_tail = t,
                    !.num_lru_pages = @ - 1]

\* lines 122-139: link p at the tail
lru_add_link(S, p, was_in_list) ==
  IF S.lru_head = Null
  THEN [S EXCEPT !.lru_head = p, !.lru_tail = p,
                 !.pages[p].next = p, !.pages[p].prev = p, !.pages[p].in_lru = TRUE,
                 !.num_lru_pages = 1]
  ELSE IF S.lru_tail = Null THEN Panic(S, "kerneltrap")
  ELSE
    LET pg1 == [S.pages EXCEPT ![p].next = S.lru_head, ![p].prev = S.lru_tail]
        pg2 == [pg1 EXCEPT ![S.lru_head].prev = p]
        pg3 == [pg2 EXCEPT ![S.lru_tail].next = p]
        pg4 == [pg3 EXCEPT ![p].in_lru = TRUE]
    IN [S EXCEPT !.pages = pg4, !.lru_tail = p,
                 !.num_lru_pages = IF was_in_list THEN @ ELSE @ + 1]

\* lines 96-99: p->pagetable and p->vaddr
lru_add_fields(S, p, pagetable, vaddr) ==
  IF S.panicked # "" THEN S
  ELSE [S EXCEPT !.pages[p].pagetable = pagetable, !.pages[p].vaddr = vaddr]

\* lines 101-139: was_in_list, the unlinking and the linking
lru_add_relink(S, p) ==
  IF S.panicked # "" THEN S
  ELSE IF S.pages[p].in_lru
       THEN lru_add_link(lru_add_unlink(S, p), p, TRUE)
       ELSE lru_add_link(S, p, FALSE)

lru_add(S, p, pagetable, vaddr, use_lock) ==
  IF S.panicked # "" THEN S
  ELSE IF p < 0 \/ p >= PhysTopFrame THEN S
  ELSE IF AboveMAXVA(vaddr) THEN S
  ELSE IF S.pages[p].is_page_table THEN S
  ELSE IF use_lock
       THEN check_lru_consistency(
              release(release(
                lru_add_note(
                  S,
                  lru_add_relink(
                    lru_add_fields(acquire(acquire(S, "page_lock"), "lru_lock"),
                                   p, pagetable, vaddr), p),
                  p),
                "lru_lock"), "page_lock"))
       ELSE lru_add_note(S, lru_add_relink(lru_add_fields(S, p, pagetable, vaddr), p), p)

----------------------------------------------------------------------------
(* vm.c: the swap bitmap; the disk driver's swapread and swapwrite *)

allocswap_scan(S) ==
  LET free == {i \in Slots : S.swap_bitmap[i] = 0}
      first == CHOOSE x \in free : \A y \in free : x <= y
  IN IF S.panicked # "" THEN [s |-> S, r |-> Null]
     ELSE IF free = {}
          THEN [s |-> Panic(release(S, "swap_bitmap_lock"), "allocswap"), r |-> Null]
          ELSE [s |-> release([S EXCEPT !.swap_bitmap[first] = 1], "swap_bitmap_lock"),
                r |-> first]

allocswap(S) == allocswap_scan(acquire(S, "swap_bitmap_lock"))

freeswap_clear(S, blkno) ==
  IF S.panicked # "" THEN S ELSE [S EXCEPT !.swap_bitmap[blkno] = 0]

freeswap(S, blkno) ==
  IF S.panicked # "" THEN S
  ELSE IF blkno < 0 \/ blkno >= MAX_SWAP_PAGES THEN Panic(S, "freeswap")
  ELSE release(freeswap_clear(acquire(S, "swap_bitmap_lock"), blkno),
               "swap_bitmap_lock")

\* slot i of the swap area into the frame at pa; a block number past the swap
\* area reads disk blocks that are not swap
swapread(S, pa, blkno) ==
  IF S.panicked # "" THEN S
  ELSE IF ~InRAM(pa) THEN Panic(S, "kerneltrap")
  ELSE [S EXCEPT !.mem[pa \div PGSIZE] =
                     IF blkno \in Slots THEN S.swapdisk[blkno] ELSE Fill(DiskJunk)]

swapwrite(S, pa, blkno) ==
  IF S.panicked # "" THEN S
  ELSE IF ~InRAM(pa) THEN Panic(S, "kerneltrap")
  ELSE IF blkno \notin Slots THEN Panic(S, "swapwrite")
  ELSE [S EXCEPT !.swapdisk[blkno] = S.mem[pa \div PGSIZE]]

\* swap_out_count++ / swap_in_count++ under swap_stats_lock: the counters are
\* write-only diagnostics and are not kept, the lock is
swap_stats(S) == release(acquire(S, "swap_stats_lock"), "swap_stats_lock")

----------------------------------------------------------------------------
(* vm.c: walk *)

NullPte == [pa |-> 0, idx |-> 0]
RdPte(S, ptr) == S.mem[ptr.pa \div PGSIZE][ptr.idx]
WrPte(S, ptr, w) == [S EXCEPT !.mem[ptr.pa \div PGSIZE][ptr.idx] = w]

\* the metadata entry walk() and freewalk() use for a page-table frame
PtPageIndex(pa) == (pa - KERNBASE) \div PGSIZE

RECURSIVE kalloc(_)

RECURSIVE walk_level(_, _, _, _, _)

\* the new page-table page of walk(): memset, its metadata, the parent's PTE
walk_fresh(k, pagetable, va, alloc, level) ==
  IF k.s.panicked # "" \/ k.r = 0 THEN [s |-> k.s, r |-> NullPte]
  ELSE walk_level(
         WrPte([k.s EXCEPT !.mem[k.r \div PGSIZE] = ZeroPage,
                           !.pages[PtPageIndex(k.r)].is_page_table = TRUE,
                           !.pages[PtPageIndex(k.r)].vaddr = 0],
               [pa |-> pagetable, idx |-> PX(level, va)], PA2PTE(k.r) + PTE_V),
         k.r, va, alloc, level - 1)

\* One level of walk()'s loop.  Reading a PTE through a pointer that is not RAM
\* is a kernel page fault (kerneltrap panics).  The pointer returned for level 0
\* is dereferenced by every caller at once, so a table outside RAM halts here.
walk_level(S, pagetable, va, alloc, level) ==
  IF S.panicked # "" THEN [s |-> S, r |-> NullPte]
  ELSE IF ~InRAM(pagetable) THEN [s |-> Panic(S, "kerneltrap"), r |-> NullPte]
  ELSE IF PX(level, va) \notin Idx THEN [s |-> S, r |-> NullPte]
  ELSE IF level = 0 THEN [s |-> S, r |-> [pa |-> pagetable, idx |-> PX(0, va)]]
  ELSE IF Has(S.mem[pagetable \div PGSIZE][PX(level, va)], PTE_V)
       THEN walk_level(S, PTE2PA(S.mem[pagetable \div PGSIZE][PX(level, va)]), va,
                       alloc, level - 1)
  ELSE IF ~alloc THEN [s |-> S, r |-> NullPte]
  ELSE walk_fresh(kalloc(S), pagetable, va, alloc, level)

walk(S, pagetable, va, alloc) ==
  IF S.panicked # "" THEN [s |-> S, r |-> NullPte]
  ELSE IF AboveMAXVA(va) THEN [s |-> Panic(S, "walk"), r |-> NullPte]
  ELSE walk_level(S, pagetable, va, alloc, 2)

----------------------------------------------------------------------------
(* vm.c: the clock and the evictor *)

\* vaddr >= KERNBASE || vaddr >= TRAMPOLINE, for the real KERNBASE = 2^31
InKernelRange(va) == (va \div L2Span) >= 2

ScanFuel == (NProcs * MaxPages + 1) * (PhysTopFrame + 1)

\* the scan is over: what it returns is, or is not, an entry of the list
sv_returned(S) ==
  (S.g_ev \ {"clock: scanning"})
  \cup {IF S.pages[S.clock_hand].in_lru /\ InSeq(S.clock_hand, LruOrder(S))
        THEN "clock: returned linked" ELSE "clock: returned unlinked"}

\* victim = clock_hand; clock_hand = clock_hand->next; release; return victim
sv_return(S) ==
  [s |-> release(release([S EXCEPT !.clock_hand = S.pages[S.clock_hand].next,
                                   !.g_ev = sv_returned(S)],
                         "lru_lock"), "page_lock"),
   r |-> S.clock_hand]

\* case 2: lru_remove(p, 0); lru_add(p, p->pagetable, p->vaddr, 0)
sv_readd(S, p) == lru_add(S, p, S.pages[p].pagetable, S.pages[p].vaddr, FALSE)
sv_totail(S, p) == IF p # S.lru_tail THEN sv_readd(lru_remove(S, p, FALSE), p) ELSE S

RECURSIVE sv_loop(_, _, _)

\* one more entry is examined: within the first lap or after it
sv_lap(S, fuel) ==
  IF ScanFuel - fuel < Len(LruOrder(S)) THEN S
  ELSE [S EXCEPT !.g_ev = @ \cup {"clock: more than a lap"}]

\* if (clock_hand == start) ... else the next round of while (1)
sv_around(S, start, fuel) ==
  IF S.panicked # "" THEN [s |-> S, r |-> Null]
  ELSE IF S.clock_hand = start THEN sv_return(S)
  ELSE sv_loop(S, start, fuel - 1)

\* case 2 took S to T for the entry p: the Access bit is clear, the cursor is
\* on what followed p, p is the tail and has kept its pagetable and vaddr
sv_chance(S, p, pte, T) ==
  IF T.panicked # "" THEN T
  ELSE [T EXCEPT !.g_ev =
          @ \cup {IF /\ ~Has(RdPte(T, pte), PTE_A)
                     /\ T.clock_hand = S.pages[p].next
                     /\ T.lru_tail = p /\ T.pages[p].in_lru
                     /\ T.pages[p].pagetable = S.pages[p].pagetable
                     /\ T.pages[p].vaddr = S.pages[p].vaddr
                  THEN "clock: second chance" ELSE "clock: second chance lost"}
            \cup (IF Has(RdPte(S, pte), PTE_U) THEN {} ELSE {"clock: chance without U"})]

\* case 3 picks the entry whose PTE is pte
sv_pick(S, pte) ==
  [S EXCEPT !.g_ev = @ \cup {IF Has(RdPte(S, pte), PTE_U)
                             THEN "clock: victim" ELSE "clock: victim without U"}]

\* the three cases of the loop body, for the entry p under the hand
sv_visit(S, w, p, start, fuel) ==
  IF w.s.panicked # "" THEN [s |-> w.s, r |-> Null]
  ELSE IF w.r = NullPte \/ ~Has(RdPte(S, w.r), PTE_V)
          \/ InKernelRange(S.pages[p].vaddr)
       THEN sv_around([S EXCEPT !.clock_hand = S.pages[p].next], start, fuel)
  ELSE IF Has(RdPte(S, w.r), PTE_A)
       THEN sv_around(
              sv_chance(S, p, w.r,
                        sv_totail([WrPte(S, w.r, ClearBit(RdPte(S, w.r), PTE_A))
                                     EXCEPT !.clock_hand = S.pages[p].next], p)),
              start, fuel)
  ELSE sv_return(sv_pick(S, w.r))

\* the while (1) of select_victim; a scan that never returns hangs the kernel
sv_loop(S, start, fuel) ==
  IF S.panicked # "" THEN [s |-> S, r |-> Null]
  ELSE IF fuel = 0 THEN [s |-> Panic(S, "hang"), r |-> Null]
  ELSE IF S.clock_hand = Null THEN [s |-> Panic(S, "kerneltrap"), r |-> Null]
  ELSE sv_visit(sv_lap(S, fuel),
                walk(S, S.pages[S.clock_hand].pagetable, S.pages[S.clock_hand].vaddr,
                     FALSE),
                S.clock_hand, start, fuel)

sv_scan(S) ==
  IF AboveMAXVA(S.pages[S.clock_hand].vaddr)
  THEN [s |-> Panic(S, "clock_hand"), r |-> Null]
  ELSE sv_loop(S, S.clock_hand, ScanFuel)

sv_locked(S) ==
  IF S.panicked # "" THEN [s |-> S, r |-> Null]
  ELSE IF S.lru_head = Null
       THEN [s |-> release(release(S, "lru_lock"), "page_lock"), r |-> Null]
       ELSE sv_scan([S EXCEPT !.clock_hand = IF @ = Null THEN S.lru_head ELSE @,
                              !.g_ev = @ \cup {"clock: scanning"}])

select_victim(S) == sv_locked(acquire(acquire(S, "page_lock"), "lru_lock"))

\* 6. the metadata of the freed frame
evict_reset(S, pg) ==
  IF S.panicked # "" THEN [s |-> S, r |-> 0]
  ELSE [s |-> [S EXCEPT !.pages[pg].pagetable = 0,
                        !.pages[pg].vaddr = 0,
                        !.pages[pg].in_lru = FALSE,
                        !.pages[pg].is_page_table = FALSE],
        r |-> 1]

\* evictpage that frees the frame and leaves the PTE as it was
evict_remap_stale(S, pte, pa, blkno) ==
  IF S.panicked # "" THEN [s |-> S, r |-> 0]
  ELSE evict_reset(kfree(release(acquire(S, "pte_lock"), "pte_lock"), pa),
                   pa \div PGSIZE)

\* 4. the PTE becomes (blkno << 12) | flags | PTE_SWAP under pte_lock
evict_rewrite(S, pte, blkno) ==
  IF S.panicked # "" THEN S
  ELSE release(WrPte(acquire(S, "pte_lock"), pte,
                     blkno * PGSIZE
                     + ClearBit(MaskBits(PTE_FLAGS(RdPte(S, pte)), RWXU), PTE_V)
                     + PTE_SWAP),
               "pte_lock")

\* 4. and 5. the PTE is rewritten, the frame is freed
evict_remap(S, pte, pa, blkno) ==
  IF S.panicked # "" THEN [s |-> S, r |-> 0]
  ELSE evict_reset(kfree(evict_rewrite(S, pte, blkno), pa), pa \div PGSIZE)

\* history: the page as it went out
evict_note(S, pte, pa) ==
  IF S.panicked # "" THEN S ELSE [S EXCEPT !.g_out[pte] = S.mem[pa \div PGSIZE]]

\* the swapped-out form of the victim's PTE: V = 0, SWAP = 1, R/W/X/U as they were
evict_pte_form(old, new) ==
  /\ ~Has(new, PTE_V) /\ Has(new, PTE_SWAP)
  /\ MaskBits(new, RWXU) = MaskBits(old, RWXU)

\* what went out, what was rewritten, unlinked and freed is the victim's own
evict_own(M, A, victim, pte, pa, blkno) ==
  /\ pa = victim * PGSIZE
  /\ A.swapdisk[blkno] = M.mem[victim]
  /\ A.freelist = <<victim * PGSIZE>> \o M.freelist
  /\ ~A.pages[victim].in_lru

\* nothing of another page is touched: the other frames but for the victim's
\* PTE word, the other slots, the other entries and their order in the list
evict_others(M, A, victim, pte, pa, blkno) ==
  /\ \A f \in Frames \ {victim, pa \div PGSIZE} :
       \A i \in Idx : (f * PGSIZE = pte.pa /\ i = pte.idx) \/ A.mem[f][i] = M.mem[f][i]
  /\ \A i \in Slots \ {blkno} : A.swapdisk[i] = M.swapdisk[i]
  /\ Linked(A) = Linked(M) \ {victim}
  /\ LruOrder(A) = Without(LruOrder(M), victim)
  /\ \A f \in PageIdx \ {victim} :
       /\ A.pages[f].pagetable = M.pages[f].pagetable
       /\ A.pages[f].vaddr = M.pages[f].vaddr
       /\ A.pages[f].is_page_table = M.pages[f].is_page_table

\* a successful evictpage took M, where the slot blkno is already allocated,
\* to A
evict_tags(M, A, victim, pte, pa, blkno) ==
  {IF evict_pte_form(RdPte(M, pte), RdPte(A, pte))
   THEN "evict: flags kept" ELSE "evict: bad flags",
   IF PTE2PPN(RdPte(A, pte)) = blkno
   THEN "evict: slot in PPN" ELSE "evict: slot not in PPN",
   IF evict_own(M, A, victim, pte, pa, blkno)
   THEN "evict: victim's own" ELSE "evict: not the victim's",
   IF evict_others(M, A, victim, pte, pa, blkno)
   THEN "evict: others kept" ELSE "evict: others changed"}

evict_seen(sl, victim, pte, pa, e) ==
  IF e.s.panicked # "" \/ e.r # 1 THEN e
  ELSE [s |-> [e.s EXCEPT !.g_ev = @ \cup evict_tags(sl.s, e.s, victim, pte, pa, sl.r)],
        r |-> 1]

\* 2. and 3. write-out, statistics, lru_remove
evict_out(sl, victim, pte, pa) ==
  evict_seen(sl, victim, pte, pa,
             evict_remap(lru_remove(swap_stats(evict_note(swapwrite(sl.s, pa, sl.r),
                                                          pte, pa)),
                                    victim, TRUE),
                         pte, pa, sl.r))

evict_found(S, victim, w) ==
  IF w.s.panicked # "" THEN [s |-> w.s, r |-> 0]
  ELSE IF w.r = NullPte \/ ~Has(RdPte(S, w.r), PTE_V) THEN [s |-> S, r |-> 0]
  ELSE evict_out(allocswap(S), victim, w.r, PTE2PA(RdPte(S, w.r)))

evict_victim(sv) ==
  IF sv.s.panicked # "" \/ sv.r = Null THEN [s |-> sv.s, r |-> 0]
  ELSE IF AboveMAXVA(sv.s.pages[sv.r].vaddr)
       THEN [s |-> Panic(sv.s, "evictpage"), r |-> 0]
       ELSE evict_found(sv.s, sv.r,
                        walk(sv.s, sv.s.pages[sv.r].pagetable, sv.s.pages[sv.r].vaddr,
                             FALSE))

evictpage(S) ==
  IF S.panicked # "" THEN [s |-> S, r |-> 0] ELSE evict_victim(select_victim(S))

----------------------------------------------------------------------------
(* kalloc.c: kalloc *)

\* retry: ... goto retry.  Besides the state and the result, the free-list the
\* result was popped from and the outcome of the last evictpage() are returned.
RECURSIVE kalloc_retry(_, _)

kalloc_pop(S, ev) ==
  [s |-> [release([S EXCEPT !.freelist = Tail(@)], "kmem")
            EXCEPT !.mem[Head(S.freelist) \div PGSIZE] = Fill(Junk5)],
   r |-> Head(S.freelist), ev |-> ev, from |-> S.freelist]

\* kalloc that returns 0 after evictpage() without looking at its result
kalloc_evicted_giveup(e, ev) ==
  IF e.s.panicked # "" THEN [s |-> e.s, r |-> 0, ev |-> ev, from |-> <<>>]
  ELSE [s |-> e.s, r |-> 0, ev |-> IF e.r = 1 THEN "ok" ELSE "fail", from |-> <<>>]

kalloc_evicted(e, ev) ==
  IF e.s.panicked # "" THEN [s |-> e.s, r |-> 0, ev |-> ev, from |-> <<>>]
  ELSE IF e.r = 1 THEN kalloc_retry(e.s, "ok")
  ELSE [s |-> e.s, r |-> 0, ev |-> "fail", from |-> <<>>]

kalloc_locked(S, ev) ==
  IF S.panicked # "" THEN [s |-> S, r |-> 0, ev |-> ev, from |-> <<>>]
  ELSE IF S.freelist # <<>> THEN kalloc_pop(S, ev)
  ELSE kalloc_evicted(evictpage(release(S, "kmem")), ev)

kalloc_retry(S, ev) ==
  IF S.panicked # "" THEN [s |-> S, r |-> 0, ev |-> ev, from |-> <<>>]
  ELSE kalloc_locked(acquire(S, "kmem"), ev)

\* g_k collects what the kalloc calls of the running handler did: "bad" when a
\* call returned null although a frame was free or the last evictpage() had
\* succeeded, or handed out a frame that was not on the free-list or still is
kalloc_note(k) ==
  IF k.r = 0
  THEN IF k.s.freelist # <<>> \/ k.ev # "fail" THEN "bad" ELSE "null"
  ELSE IF ~InSeq(k.r, k.from) \/ InSeq(k.r, k.s.freelist) THEN "bad"
  ELSE IF k.ev = "ok" THEN "evicted" ELSE "popped"

kalloc_noted(k) ==
  IF k.s.panicked # "" THEN [s |-> k.s, r |-> 0]
  ELSE [s |-> [k.s EXCEPT !.g_k = @ \cup {kalloc_note(k)}], r |-> k.r]

kalloc(S) == kalloc_noted(kalloc_retry(S, "none"))

----------------------------------------------------------------------------
(* vm.c: mappages, uvmunmap *)

OrV(perm) == SetBit(perm, PTE_V)

RECURSIVE mappages_loop(_, _, _, _, _, _)

\* if (perm & PTE_U) ... lru_add(pg, pagetable, a, LRU_LOCKED)
mappages_track(S, pagetable, a, pa, perm) ==
  IF S.panicked # "" THEN S
  ELSE IF Has(perm, PTE_U) /\ ~S.pages[pa \div PGSIZE].in_lru
          /\ ~S.pages[pa \div PGSIZE].is_page_table /\ ~AboveMAXVA(a)
       THEN lru_add(S, pa \div PGSIZE, pagetable, a, TRUE)
       ELSE S

\* if (a == last) break; a += PGSIZE; pa += PGSIZE
mappages_next(S, pagetable, a, last, pa, perm) ==
  IF a = last THEN [s |-> S, r |-> 0]
  ELSE mappages_loop(S, pagetable, a + PGSIZE, last, pa + PGSIZE, perm)

mappages_map(w, pagetable, a, last, pa, perm) ==
  IF w.s.panicked # "" \/ w.r = NullPte THEN [s |-> w.s, r |-> 0 - 1]
  ELSE IF Has(RdPte(w.s, w.r), PTE_V)
       THEN [s |-> Panic(w.s, "mappages: remap"), r |-> 0 - 1]
       ELSE mappages_next(
              mappages_track(
                release(WrPte(acquire(w.s, "pte_lock"), w.r, PA2PTE(pa) + OrV(perm)),
                        "pte_lock"),
                pagetable, a, pa, perm),
              pagetable, a, last, pa, perm)

mappages_loop(S, pagetable, a, last, pa, perm) ==
  IF S.panicked # "" THEN [s |-> S, r |-> 0 - 1]
  ELSE mappages_map(walk(S, pagetable, a, TRUE), pagetable, a, last, pa, perm)

mappages(S, pagetable, va, size, pa, perm) ==
  IF S.panicked # "" THEN [s |-> S, r |-> 0 - 1]
  ELSE IF va % PGSIZE # 0 THEN [s |-> Panic(S, "mappages: va not aligned"), r |-> 0 - 1]
  ELSE IF size % PGSIZE # 0 THEN [s |-> Panic(S, "mappages: size not aligned"), r |-> 0 - 1]
  ELSE IF size = 0 THEN [s |-> Panic(S, "mappages: size"), r |-> 0 - 1]
  ELSE mappages_loop(S, pagetable, va, va + size - PGSIZE, pa, perm)

NoContent == <<>>

RECURSIVE uvmunmap_loop(_, _, _, _, _)

\* *pte = 0 under pte_lock
uvmunmap_clear(S, pte) ==
  IF S.panicked # "" THEN S ELSE [WrPte(S, pte, 0) EXCEPT !.g_out[pte] = NoContent]
uvmunmap_zap(S, pte) == release(uvmunmap_clear(acquire(S, "pte_lock"), pte), "pte_lock")

\* pg->vaddr = 0 after lru_remove(pg, 1)
uvmunmap_forget(S, pg) ==
  IF S.panicked # "" THEN S ELSE [S EXCEPT !.pages[pg].vaddr = 0]

\* the do_free branch
uvmunmap_free(S, pa) ==
  IF pa \div PGSIZE \notin PageIdx THEN Panic(S, "kerneltrap")
  ELSE kfree(IF S.pages[pa \div PGSIZE].in_lru
             THEN uvmunmap_forget(lru_remove(S, pa \div PGSIZE, TRUE), pa \div PGSIZE)
             ELSE S,
             pa)

uvmunmap_page(S, w, pagetable, a, stop, do_free) ==
  IF w.s.panicked # "" THEN w.s
  ELSE IF w.r = NullPte THEN Panic(S, "uvmunmap: walk")
  ELSE IF ~Has(RdPte(S, w.r), PTE_V) THEN Panic(S, "uvmunmap: not mapped")
  ELSE IF PTE_FLAGS(RdPte(S, w.r)) = PTE_V THEN Panic(S, "uvmunmap: not a leaf")
  ELSE uvmunmap_loop(
         uvmunmap_zap(IF do_free THEN uvmunmap_free(S, PTE2PA(RdPte(S, w.r)))
                      ELSE IF Has(RdPte(S, w.r), PTE_SWAP)
                           THEN freeswap(S, PTE2PPN(RdPte(S, w.r)))
                           ELSE S,
                      w.r),
         pagetable, a + PGSIZE, stop, do_free)

uvmunmap_loop(S, pagetable, a, stop, do_free) ==
  IF S.panicked # "" THEN S
  ELSE IF a >= stop THEN S
  ELSE uvmunmap_page(S, walk(S, pagetable, a, FALSE), pagetable, a, stop, do_free)

uvmunmap(S, pagetable, va, npages, do_free) ==
  IF S.panicked # "" THEN S
  ELSE IF va % PGSIZE # 0 THEN Panic(S, "uvmunmap: not aligned")
  ELSE uvmunmap_loop(S, pagetable, va, va + npages * PGSIZE, do_free)

----------------------------------------------------------------------------
(* vm.c: address-space operations *)

uvmcreate_zeroed(k) ==
  IF k.s.panicked # "" \/ k.r = 0 THEN [s |-> k.s, r |-> 0]
  ELSE [s |-> [k.s EXCEPT !.mem[k.r \div PGSIZE] = ZeroPage], r |-> k.r]

uvmcreate(S) == uvmcreate_zeroed(kalloc(S))

\* the bytes of initcode: a non-zero first word
InitPage == [i \in Idx |-> IF i = 0 THEN MaxVal ELSE 0]

\* memmove(mem, src, sz)
uvmfirst_copy(S, pg) ==
  IF S.panicked # "" THEN S ELSE [S EXCEPT !.mem[pg] = InitPage]

\* if (!pg->is_page_table) lru_add(pg, pagetable, 0, 0)
uvmfirst_track(m, pagetable, pg) ==
  IF m.s.panicked # "" THEN m.s
  ELSE IF ~m.s.pages[pg].is_page_table THEN lru_add(m.s, pg, pagetable, 0, FALSE)
  ELSE m.s

\* memset(mem, 0, PGSIZE) on a null mem is a kernel page fault
uvmfirst_got(k, pagetable) ==
  IF k.s.panicked # "" THEN k.s
  ELSE IF k.r = 0 THEN Panic(k.s, "kerneltrap")
  ELSE uvmfirst_copy(
         uvmfirst_track(
           mappages([k.s EXCEPT !.mem[k.r \div PGSIZE] = ZeroPage],
                    pagetable, 0, PGSIZE, k.r, PTE_W + PTE_R + PTE_X + PTE_U),
           pagetable, k.r \div PGSIZE),
         k.r \div PGSIZE)

uvmfirst(S, pagetable) == uvmfirst_got(kalloc(S), pagetable)

uvmdealloc(S, pagetable, oldsz, newsz) ==
  IF S.panicked # "" THEN [s |-> S, r |-> 0]
  ELSE IF newsz >= oldsz THEN [s |-> S, r |-> oldsz]
  ELSE [s |-> uvmunmap(S, pagetable, newsz, (oldsz - newsz) \div PGSIZE, TRUE),
        r |-> newsz]

RECURSIVE uvmalloc_loop(_, _, _, _, _, _)

\* kfree(mem) when mappages failed
uvmalloc_mapped(m, mem) ==
  IF m.s.panicked # "" \/ m.r = 0 THEN [s |-> m.s, ok |-> TRUE]
  ELSE [s |-> kfree(m.s, mem), ok |-> FALSE]

uvmalloc_got(k, pagetable, a, xperm) ==
  IF k.s.panicked # "" \/ k.r = 0 THEN [s |-> k.s, ok |-> FALSE]
  ELSE uvmalloc_mapped(
         mappages([k.s EXCEPT !.mem[k.r \div PGSIZE] = ZeroPage],
                  pagetable, a, PGSIZE, k.r, BitOr(PTE_R + PTE_W + PTE_U, xperm)),
         k.r)

\* the next page, or uvmdealloc(pagetable, a, oldsz); return 0
uvmalloc_grown(g, pagetable, oldsz, a, newsz, xperm) ==
  IF g.s.panicked # "" THEN [s |-> g.s, r |-> 0]
  ELSE IF g.ok THEN uvmalloc_loop(g.s, pagetable, oldsz, a + PGSIZE, newsz, xperm)
  ELSE [s |-> uvmdealloc(g.s, pagetable, a, oldsz).s, r |-> 0]

uvmalloc_loop(S, pagetable, oldsz, a, newsz, xperm) ==
  IF S.panicked # "" THEN [s |-> S, r |-> 0]
  ELSE IF a >= newsz THEN [s |-> S, r |-> newsz]
  ELSE uvmalloc_grown(uvmalloc_got(kalloc(S), pagetable, a, xperm),
                      pagetable, oldsz, a, newsz, xperm)

\* oldsz and newsz are page-aligned here, so PGROUNDUP is the identity
uvmalloc(S, pagetable, oldsz, newsz, xperm) ==
  IF S.panicked # "" THEN [s |-> S, r |-> 0]
  ELSE IF newsz < oldsz THEN [s |-> S, r |-> oldsz]
  ELSE uvmalloc_loop(S, pagetable, oldsz, oldsz, newsz, xperm)

RWX == {PTE_R, PTE_W, PTE_X}

\* only the entries 0 .. MaxPages-1 of a node are kept; the others are zero
RECURSIVE freewalk(_, _)
RECURSIVE freewalk_entries(_, _, _)
freewalk_entries(S, pagetable, i) ==
  IF S.panicked # "" THEN S
  ELSE IF i \notin Idx THEN S
  ELSE
    LET pte == S.mem[pagetable \div PGSIZE][i]
    IN IF Has(pte, PTE_V) /\ MaskBits(pte, RWX) = 0
       THEN LET S1 == freewalk(S, PTE2PA(pte))
            IN IF S1.panicked # "" THEN S1
               ELSE freewalk_entries([S1 EXCEPT !.mem[pagetable \div PGSIZE][i] = 0],
                                     pagetable, i + 1)
       ELSE IF Has(pte, PTE_V) THEN Panic(S, "freewalk: leaf")
       ELSE freewalk_entries(S, pagetable, i + 1)

freewalk(S, pagetable) ==
  IF S.panicked # "" THEN S
  ELSE IF ~InRAM(pagetable) THEN Panic(S, "kerneltrap")
  ELSE
    LET S1 == freewalk_entries(S, pagetable, 0)
        pg == PtPageIndex(pagetable)
    IN IF S1.panicked # "" THEN S1
       ELSE kfree([S1 EXCEPT !.pages[pg].is_page_table = FALSE, !.pages[pg].vaddr = 0],
                  pagetable)

uvmfree(S, pagetable, sz) ==
  LET S1 == IF sz > 0 THEN uvmunmap(S, pagetable, 0, sz \div PGSIZE, TRUE) ELSE S
  IN freewalk(S1, pagetable)

RECURSIVE uvmcopy_loop(_, _, _, _, _)

\* kfree(mem) when mappages failed
uvmcopy_mapped(m, mem) ==
  IF m.s.panicked # "" \/ m.r = 0 THEN [s |-> m.s, ok |-> TRUE]
  ELSE [s |-> kfree(m.s, mem), ok |-> FALSE]

\* a swapped page is mapped with PTE_FLAGS(*pte) & (R|W|X|U) read after the
\* swapread, a resident one with the flags read before kalloc()
uvmcopy_map(S, new, i, mem, swapped, pte, flags) ==
  uvmcopy_mapped(mappages(S, new, i, PGSIZE, mem,
                          IF swapped THEN MaskBits(PTE_FLAGS(RdPte(S, pte)), RWXU)
                          ELSE flags),
                 mem)

\* swapread(mem, PTE2PPN(*pte)), or memmove(mem, pa, PGSIZE) with the pa read
\* before kalloc()
uvmcopy_fill(k, swapped, pte, pa) ==
  IF swapped THEN swapread(k.s, k.r, PTE2PPN(RdPte(k.s, pte)))
  ELSE IF ~InRAM(pa) THEN Panic(k.s, "kerneltrap")
  ELSE [k.s EXCEPT !.mem[k.r \div PGSIZE] = k.s.mem[pa \div PGSIZE]]

uvmcopy_got(k, new, i, swapped, pte, pa, flags) ==
  IF k.s.panicked # "" \/ k.r = 0 THEN [s |-> k.s, ok |-> FALSE]
  ELSE uvmcopy_map(uvmcopy_fill(k, swapped, pte, pa), new, i, k.r, swapped, pte, flags)

uvmcopy_page(S, w, new, i) ==
  IF w.s.panicked # "" THEN [s |-> w.s, ok |-> FALSE]
  ELSE IF w.r = NullPte
       THEN [s |-> Panic(S, "uvmcopy: pte should exist"), ok |-> FALSE]
  ELSE IF ~Has(RdPte(S, w.r), PTE_V) /\ ~Has(RdPte(S, w.r), PTE_SWAP)
       THEN [s |-> Panic(S, "uvmcopy: page not present"), ok |-> FALSE]
  ELSE uvmcopy_got(kalloc(S), new, i, ~Has(RdPte(S, w.r), PTE_V), w.r,
                   PTE2PA(RdPte(S, w.r)), PTE_FLAGS(RdPte(S, w.r)))

\* the next page, or err: uvmunmap(new, 0, i / PGSIZE, 1); return -1
uvmcopy_copied(c, old, new, i, sz) ==
  IF c.s.panicked # "" THEN [s |-> c.s, r |-> 0 - 1]
  ELSE IF c.ok THEN uvmcopy_loop(c.s, old, new, i + PGSIZE, sz)
  ELSE [s |-> uvmunmap([c.s EXCEPT !.g_ev = @ \cup {"copy: err"}], new, 0,
                       i \div PGSIZE, TRUE),
        r |-> 0 - 1]

uvmcopy_loop(S, old, new, i, sz) ==
  IF S.panicked # "" THEN [s |-> S, r |-> 0 - 1]
  ELSE IF i >= sz THEN [s |-> S, r |-> 0]
  ELSE uvmcopy_copied(uvmcopy_page(S, walk(S, old, i, FALSE), new, i), old, new, i, sz)

uvmcopy(S, old, new, sz) == uvmcopy_loop(S, old, new, 0, sz)

uvmclear_pte(S, w) ==
  IF w.s.panicked # "" THEN w.s
  ELSE IF w.r = NullPte THEN Panic(S, "uvmclear")
  ELSE WrPte(S, w.r, ClearBit(RdPte(S, w.r), PTE_U))

uvmclear(S, pagetable, va) == uvmclear_pte(S, walk(S, pagetable, va, FALSE))

----------------------------------------------------------------------------
(* swap-in: walkaddr and the page-fault branch of usertrap *)

\* g_rt compares the page just read back with the page evictpage wrote out
RoundTrip(S, pte, mem) ==
  IF S.panicked # "" \/ S.g_out[pte] = NoContent THEN S
  ELSE [S EXCEPT !.g_rt = IF @ = "bad" \/ S.mem[mem \div PGSIZE] # S.g_out[pte]
                          THEN "bad" ELSE "ok",
                 !.g_out[pte] = NoContent]

\* if (!pg->in_lru && !pg->is_page_table && va != 0 && va < MAXVA) lru_add(...)
walkaddr_track(S, pagetable, va, pg) ==
  IF S.panicked # "" THEN S
  ELSE IF ~S.pages[pg].in_lru /\ ~S.pages[pg].is_page_table
          /\ va # 0 /\ ~AboveMAXVA(va)
       THEN lru_add(S, pg, pagetable, va, TRUE)
       ELSE S

\* *pte = PA2PTE(mem) | (PTE_FLAGS(*pte) & ~PTE_SWAP) | PTE_V
walkaddr_remap(S, pagetable, va, pte, mem) ==
  IF S.panicked # "" THEN [s |-> S, r |-> 0]
  ELSE [s |-> RoundTrip(
                walkaddr_track(
                  WrPte(S, pte,
                        PA2PTE(mem) + OrV(ClearBit(PTE_FLAGS(RdPte(S, pte)), PTE_SWAP))),
                  pagetable, va, mem \div PGSIZE),
                pte, mem),
        r |-> mem]

walkaddr_swapin(k, pagetable, va, pte, blkno) ==
  IF k.s.panicked # "" \/ k.r = 0 THEN [s |-> k.s, r |-> 0]
  ELSE walkaddr_remap(swap_stats(freeswap(swapread(k.s, k.r, blkno), blkno)),
                      pagetable, va, pte, k.r)

walkaddr_pte(S, w, pagetable, va) ==
  IF w.s.panicked # "" THEN [s |-> w.s, r |-> 0]
  ELSE IF w.r = NullPte THEN [s |-> S, r |-> 0]
  ELSE IF ~Has(RdPte(S, w.r), PTE_V) /\ Has(RdPte(S, w.r), PTE_SWAP)
       THEN walkaddr_swapin(kalloc(S), pagetable, va, w.r, PTE2PPN(RdPte(S, w.r)))
  ELSE IF ~Has(RdPte(S, w.r), PTE_V) \/ ~Has(RdPte(S, w.r), PTE_U)
       THEN [s |-> S, r |-> 0]
  ELSE [s |-> S, r |-> PTE2PA(RdPte(S, w.r))]

walkaddr(S, pagetable, va) == walkaddr_pte(S, walk(S, pagetable, va, FALSE), pagetable, va)

\* one word at the start of a page, copied from the kernel to user memory
copyout_store(S, pa0, word) ==
  IF ~InRAM(pa0) THEN [s |-> Panic(S, "kerneltrap"), r |-> 0 - 1]
  ELSE [s |-> [S EXCEPT !.mem[pa0 \div PGSIZE][0] = word], r |-> 0]

copyout_pte(S, w, word) ==
  IF w.s.panicked # "" THEN [s |-> w.s, r |-> 0 - 1]
  ELSE IF w.r = NullPte \/ ~Has(RdPte(S, w.r), PTE_V)
          \/ ~Has(RdPte(S, w.r), PTE_U) \/ ~Has(RdPte(S, w.r), PTE_W)
       THEN [s |-> S, r |-> 0 - 1]
  ELSE copyout_store(S, PTE2PA(RdPte(S, w.r)), word)

copyout(S, pagetable, dstva, word) ==
  IF AboveMAXVA(PGROUNDDOWN(dstva)) THEN [s |-> S, r |-> 0 - 1]
  ELSE copyout_pte(S, walk(S, pagetable, PGROUNDDOWN(dstva), FALSE), word)

\* one word at the start of a page, copied from user memory to the kernel
copyin_load(wa) ==
  IF wa.s.panicked # "" THEN [s |-> wa.s, r |-> 0 - 1, word |-> 0]
  ELSE IF wa.r = 0 THEN [s |-> wa.s, r |-> 0 - 1, word |-> 0]
  ELSE IF ~InRAM(wa.r) THEN [s |-> Panic(wa.s, "kerneltrap"), r |-> 0 - 1, word |-> 0]
  ELSE [s |-> wa.s, r |-> 0, word |-> wa.s.mem[wa.r \div PGSIZE][0]]

copyin(S, pagetable, srcva) == copyin_load(walkaddr(S, pagetable, PGROUNDDOWN(srcva)))

----------------------------------------------------------------------------
(* trap.c: usertrap, scause 13 or 15 *)

\* if (!pg->in_lru && !pg->is_page_table && va < MAXVA) lru_add(...)
usertrap_track(S, pagetable, va, pg) ==
  IF S.panicked # "" THEN S
  ELSE IF ~S.pages[pg].in_lru /\ ~S.pages[pg].is_page_table /\ ~AboveMAXVA(va)
       THEN lru_add(S, pg, pagetable, va, TRUE)
       ELSE S

\* *pte = PA2PTE(mem) | (flags & ~PTE_SWAP) | PTE_V under pte_lock
usertrap_remap(S, pagetable, va, pte, mem) ==
  IF S.panicked # "" THEN [s |-> S, killed |-> FALSE]
  ELSE [s |-> RoundTrip(
                usertrap_track(
                  release(WrPte(acquire(S, "pte_lock"), pte,
                                PA2PTE(mem)
                                + OrV(ClearBit(MaskBits(PTE_FLAGS(RdPte(S, pte)), RWXU),
                                               PTE_SWAP))),
                          "pte_lock"),
                  pagetable, va, mem \div PGSIZE),
                pte, mem),
        killed |-> FALSE]

\* blkno = PTE2PPN(*pte); swapread(mem, blkno); freeswap(blkno)
usertrap_swapin(k, pagetable, va, pte) ==
  IF k.s.panicked # "" THEN [s |-> k.s, killed |-> FALSE]
  ELSE IF k.r = 0 THEN [s |-> k.s, killed |-> TRUE]
  ELSE usertrap_remap(freeswap(swapread(k.s, k.r, PTE2PPN(RdPte(k.s, pte))),
                               PTE2PPN(RdPte(k.s, pte))),
                      pagetable, va, pte, k.r)

\* if (!mem) { if (!evictpage()) kill; mem = kalloc(); if (!mem) kill; }
usertrap_second(e) ==
  IF e.s.panicked # "" \/ e.r = 0 THEN [s |-> e.s, r |-> 0] ELSE kalloc(e.s)
usertrap_first(k) ==
  IF k.s.panicked # "" \/ k.r # 0 THEN k ELSE usertrap_second(evictpage(k.s))

usertrap_fault(S, w, pagetable, va) ==
  IF w.s.panicked # "" THEN [s |-> w.s, killed |-> FALSE]
  ELSE IF w.r # NullPte /\ Has(RdPte(S, w.r), PTE_SWAP)
       THEN usertrap_swapin(usertrap_first(kalloc(S)), pagetable, va, w.r)
       ELSE [s |-> S, killed |-> TRUE]

usertrap(S, pagetable, va) == usertrap_fault(S, walk(S, pagetable, va, FALSE), pagetable, va)

----------------------------------------------------------------------------
(* State *)

VARIABLES
  freelist,       \* kmem.freelist, head first
  mem,            \* physical memory: frame -> words
  pages,          \* struct page pages[]
  lru_head, lru_tail, num_lru_pages,
  clock_hand,
  swap_bitmap,
  swapdisk,       \* the swap area of the disk: slot -> words
  held,           \* spinlocks held
  panicked,       \* "" while the kernel runs
  proc,           \* address spaces: pagetable, sz, killed
  kheld,          \* frames kalloc() gave to other kernel code (pipes, stacks)
  booted,         \* userinit() has run
  g_out,          \* history: PTE -> page written out when it was evicted
  g_rt,           \* history: swap-ins of the last handler gave back what went out
  g_k,            \* history: the kalloc calls of the last handler
  g_add,          \* history: the lru_add calls of the last handler
  g_copy,         \* history: outcome of the last uvmcopy
  g_fork,         \* history: parent image at the last successful uvmcopy
  g_ev,           \* history: what the last handler was seen to do
  harts,          \* the harts that are inside evictpage(), and where
  ops             \* handlers run so far

vars == <<freelist, mem, pages, lru_head, lru_tail, num_lru_pages, clock_hand,
          swap_bitmap, swapdisk, held, panicked, proc, kheld, booted,
          g_out, g_rt, g_k, g_add, g_copy, g_fork, g_ev, harts, ops>>

PtePtrs == [pa : {f * PGSIZE : f \in Frames}, idx : Idx]
NoProc == [pagetable |-> 0, sz |-> 0, killed |-> FALSE]
NoFork == [parent |-> 0, child |-> 0, img |-> <<>>]
Harts == 1 .. NHarts
IdleHart == [pc |-> "idle", victim |-> Null, pte |-> [pa |-> 0, idx |-> 0], pa |-> 0,
             blkno |-> Null, page |-> <<>>]

\* the kernel's globals when a handler starts
Cur ==
  [freelist |-> freelist, mem |-> mem, pages |-> pages, lru_head |-> lru_head,
   lru_tail |-> lru_tail, num_lru_pages |-> num_lru_pages, clock_hand |-> clock_hand,
   swap_bitmap |-> swap_bitmap, swapdisk |-> swapdisk, held |-> held,
   panicked |-> panicked, g_out |-> g_out, g_rt |-> "none", g_k |-> {},
   g_add |-> {}, g_ev |-> {}]

\* kinit(): freerange() frees the frames in ascending order
RECURSIVE Descending(_, _)
Descending(lo, hi) == IF hi < lo THEN <<>> ELSE <<hi * PGSIZE>> \o Descending(lo, hi - 1)

\* the kernel's globals after kinit()
Boot ==
  [freelist |-> Descending(KernBaseFrame + 1, PhysTopFrame - 1),
   mem |-> [f \in Frames |-> Fill(Junk1)],
   pages |-> [i \in PageIdx |-> NoPage],
   lru_head |-> Null, lru_tail |-> Null, num_lru_pages |-> 0, clock_hand |-> Null,
   swap_bitmap |-> [i \in Slots |-> 0],
   swapdisk |-> [i \in Slots |-> ZeroPage],
   held |-> {}, panicked |-> "",
   g_out |-> [q \in PtePtrs |-> NoContent], g_rt |-> "none", g_k |-> {},
   g_add |-> {}, g_ev |-> {}]

\* the kernel's globals when the handler is done
Install(S) ==
  /\ freelist' = S.freelist
  /\ mem' = S.mem
  /\ pages' = S.pages
  /\ lru_head' = S.lru_head
  /\ lru_tail' = S.lru_tail
  /\ num_lru_pages' = S.num_lru_pages
  /\ clock_hand' = S.clock_hand
  /\ swap_bitmap' = S.swap_bitmap
  /\ swapdisk' = S.swapdisk
  /\ held' = S.held
  /\ panicked' = S.panicked
  /\ g_out' = S.g_out
  /\ g_rt' = S.g_rt
  /\ g_k' = S.g_k
  /\ g_add' = S.g_add
  /\ g_ev' = S.g_ev

\* The end of a handler.  After a panic (or a hang) nothing runs any more: of
\* a halted kernel only the reason is kept, and what the handler was seen to
\* have begun.
Done(S, newproc, newkheld, newcopy, newfork) ==
  /\ ops < MaxOps
  /\ IF S.panicked # ""
     THEN /\ Install([Boot EXCEPT !.panicked = S.panicked, !.g_ev = S.g_ev])
          /\ proc' = [a \in Procs |-> NoProc]
          /\ kheld' = {}
          /\ booted' = TRUE
          /\ g_copy' = "none"
          /\ g_fork' = NoFork
          /\ harts' = [h \in Harts |-> IdleHart]
          /\ ops' = 0
     ELSE /\ Install(S)
          /\ proc' = newproc
          /\ kheld' = newkheld
          /\ booted' = TRUE
          /\ g_copy' = newcopy
          /\ g_fork' = newfork
          /\ harts' = harts
          /\ ops' = ops + 1

Init ==
  /\ freelist = Boot.freelist
  /\ mem = Boot.mem
  /\ pages = Boot.pages
  /\ lru_head = Boot.lru_head
  /\ lru_tail = Boot.lru_tail
  /\ num_lru_pages = Boot.num_lru_pages
  /\ clock_hand = Boot.clock_hand
  /\ swap_bitmap = Boot.swap_bitmap
  /\ swapdisk = Boot.swapdisk
  /\ held = Boot.held
  /\ panicked = Boot.panicked
  /\ proc = [a \in Procs |-> NoProc]
  /\ kheld = {}
  /\ booted = FALSE
  /\ g_out = Boot.g_out
  /\ g_rt = Boot.g_rt
  /\ g_k = Boot.g_k
  /\ g_add = Boot.g_add
  /\ g_ev = Boot.g_ev
  /\ g_copy = "none"
  /\ g_fork = NoFork
  /\ harts = [h \in Harts |-> IdleHart]
  /\ ops = 0

----------------------------------------------------------------------------
(* What a page of an address space holds *)

\* the leaf PTE the MMU finds for va, or NullPte: walk() without allocation
\* and without its traps
RECURSIVE Leaf_level(_, _, _, _)
Leaf_level(S, pagetable, va, level) ==
  IF ~InRAM(pagetable) \/ PX(level, va) \notin Idx THEN NullPte
  ELSE IF level = 0 THEN [pa |-> pagetable, idx |-> PX(0, va)]
  ELSE IF Has(S.mem[pagetable \div PGSIZE][PX(level, va)], PTE_V)
       THEN Leaf_level(S, PTE2PA(S.mem[pagetable \div PGSIZE][PX(level, va)]), va,
                       level - 1)
       ELSE NullPte

Leaf(S, pagetable, va) ==
  IF pagetable = 0 \/ AboveMAXVA(va) THEN NullPte ELSE Leaf_level(S, pagetable, va, 2)

\* the words of the page at va: of its frame when resident, of what was
\* written out when swapped
PteContent(S, pte) ==
  IF pte = NullPte THEN NoContent
  ELSE IF Has(RdPte(S, pte), PTE_V)
       THEN IF InRAM(PTE2PA(RdPte(S, pte))) THEN S.mem[PTE2PA(RdPte(S, pte)) \div PGSIZE]
            ELSE NoContent
       ELSE IF Has(RdPte(S, pte), PTE_SWAP) THEN S.g_out[pte]
       ELSE NoContent

Content(S, pagetable, va) == PteContent(S, Leaf(S, pagetable, va))

Image(S, pagetable, sz) ==
  [i \in 0 .. (sz \div PGSIZE) - 1 |-> Content(S, pagetable, i * PGSIZE)]

Running(a) == panicked = "" /\ booted /\ proc[a].pagetable # 0 /\ ~proc[a].killed

\* the parent image of the last fork stays valid until parent or child change size
DropFork(a) == IF g_fork.parent = a \/ g_fork.child = a THEN NoFork ELSE g_fork
\* ... or until the parent stores to its memory
ParentWrote(a) == IF g_fork.parent = a THEN NoFork ELSE g_fork

----------------------------------------------------------------------------
(* Actions: one handler each *)

\* tags for what the running handler was seen to do
SeenAll(S, tags) == IF S.panicked # "" THEN S ELSE [S EXCEPT !.g_ev = @ \cup tags]
Seen(S, tag) == SeenAll(S, {tag})

\* userinit(): the first process gets a page table and initcode at va 0
userinit_first(c) ==
  IF c.s.panicked # "" THEN c.s
  ELSE IF c.r = 0 THEN Panic(c.s, "userinit") ELSE uvmfirst(c.s, c.r)

userinit_done(c) ==
  Done(userinit_first(c),
       [proc EXCEPT ![1] = [pagetable |-> c.r, sz |-> PGSIZE, killed |-> FALSE]],
       kheld, "none", g_fork)

UserInit ==
  /\ panicked = "" /\ ~booted
  /\ userinit_done(uvmcreate(Cur))

\* allocproc() -> proc_pagetable(): uvmcreate
UvmCreate(a) ==
  /\ panicked = "" /\ booted /\ proc[a].pagetable = 0
  /\ LET Made(c) == Done(c.s, [proc EXCEPT ![a].pagetable = c.r], kheld, "none", g_fork)
     IN Made(uvmcreate(Cur))

\* the frames behind the resident leaves of [lo, hi)
LeavesWithin(S, pagetable, lo, hi) ==
  {PTE2PA(RdPte(S, Leaf(S, pagetable, i * PGSIZE))) :
     i \in {j \in Idx : /\ lo <= j * PGSIZE /\ j * PGSIZE < hi
                         /\ Leaf(S, pagetable, j * PGSIZE) # NullPte
                         /\ Has(RdPte(S, Leaf(S, pagetable, j * PGSIZE)), PTE_V)}}

\* no page at or above sz is mapped, resident or swapped, or known to the LRU list
NothingAbove(S, pagetable, sz) ==
  /\ \A i \in Idx :
       i * PGSIZE >= sz =>
         \/ Leaf(S, pagetable, i * PGSIZE) = NullPte
         \/ RdPte(S, Leaf(S, pagetable, i * PGSIZE)) = 0
  /\ \A f \in Linked(S) : ~(S.pages[f].pagetable = pagetable /\ S.pages[f].vaddr >= sz)

\* uvmalloc took B to M and uvmdealloc back to oldsz took M to A: the pages
\* below oldsz hold what they held, nothing is mapped above, the frames
\* uvmalloc mapped are what the free-list gained, the bitmap is as uvmalloc
\* left it
Restored(B, M, A, pagetable, oldsz, newsz) ==
  /\ Image(A, pagetable, oldsz) = Image(B, pagetable, oldsz)
  /\ NothingAbove(A, pagetable, oldsz)
  /\ {A.freelist[i] : i \in 1 .. Len(A.freelist)}
       = {M.freelist[i] : i \in 1 .. Len(M.freelist)}
         \cup LeavesWithin(M, pagetable, oldsz, newsz)
  /\ Len(A.freelist) = Len(M.freelist) + (newsz - oldsz) \div PGSIZE
  /\ LeavesWithin(M, pagetable, oldsz, newsz) \cap Linked(A) = {}
  /\ A.swap_bitmap = M.swap_bitmap

\* uvmalloc seen by what uvmdealloc back to the old size makes of its result d
grow_seen(B, u, d, pagetable, oldsz) ==
  IF u.r = 0
  THEN IF /\ Image(u.s, pagetable, oldsz) = Image(B, pagetable, oldsz)
          /\ NothingAbove(u.s, pagetable, oldsz)
       THEN "grow: rolled back" ELSE "grow: bad rollback"
  ELSE IF d.s.panicked # "" THEN "grow: shrink aborts"
  ELSE IF d.r = oldsz /\ Restored(B, u.s, d.s, pagetable, oldsz, u.r)
       THEN "grow: restored" ELSE "grow: not restored"

\* uvmalloc with newsz < oldsz
grow_noop(B, pagetable, sz) ==
  IF sz = 0 \/ uvmalloc(B, pagetable, sz, sz - PGSIZE, PTE_W) = [s |-> B, r |-> sz]
  THEN {} ELSE {"grow: bad no-op"}

uvmalloc_back(u, a) ==
  Done(SeenAll(u.s,
               {grow_seen(Cur, u, uvmdealloc(u.s, proc[a].pagetable, u.r, proc[a].sz),
                          proc[a].pagetable, proc[a].sz)}
               \cup grow_noop(Cur, proc[a].pagetable, proc[a].sz)),
       [proc EXCEPT ![a].sz = IF u.r = 0 THEN @ ELSE u.r], kheld, "none", DropFork(a))

\* growproc(n > 0): uvmalloc(pagetable, sz, sz + n, PTE_W)
UvmAlloc(a, n) ==
  /\ Running(a)
  /\ proc[a].sz + n * PGSIZE <= MaxPages * PGSIZE
  /\ uvmalloc_back(uvmalloc(Cur, proc[a].pagetable, proc[a].sz,
                            proc[a].sz + n * PGSIZE, PTE_W), a)

\* the page behind PTE q of state B is released in state A: a resident
\* page's frame is on the free-list and out of the LRU list, a swapped page's
\* slot is free
PageReleased(B, A, q) ==
  /\ q # NullPte
  /\ IF Has(RdPte(B, q), PTE_V)
     THEN /\ InSeq(PTE2PA(RdPte(B, q)), A.freelist)
          /\ PTE2PPN(RdPte(B, q)) \in PageIdx
          /\ ~A.pages[PTE2PPN(RdPte(B, q))].in_lru
     ELSE /\ Has(RdPte(B, q), PTE_SWAP)
          /\ PTE2PPN(RdPte(B, q)) \in Slots
          /\ A.swap_bitmap[PTE2PPN(RdPte(B, q))] = 0

\* uvmunmap(pagetable, lo, (hi - lo) / PGSIZE, 1) took state B to state A
unmap_seen(B, A, pagetable, lo, hi) ==
  IF \A i \in Idx : (lo <= i * PGSIZE /\ i * PGSIZE < hi)
                      => PageReleased(B, A, Leaf(B, pagetable, i * PGSIZE))
  THEN "unmap: released" ELSE "unmap: bad"

\* some page of [lo, hi) is swapped out
SwappedWithin(S, pagetable, lo, hi) ==
  \E i \in Idx :
    /\ lo <= i * PGSIZE /\ i * PGSIZE < hi
    /\ Leaf(S, pagetable, i * PGSIZE) # NullPte
    /\ ~Has(RdPte(S, Leaf(S, pagetable, i * PGSIZE)), PTE_V)
    /\ Has(RdPte(S, Leaf(S, pagetable, i * PGSIZE)), PTE_SWAP)

uvmdealloc_back(u, a, n) ==
  Done(Seen(u.s, unmap_seen(Cur, u.s, proc[a].pagetable, proc[a].sz - n * PGSIZE,
                            proc[a].sz)),
       [proc EXCEPT ![a].sz = u.r], kheld, "none", DropFork(a))

\* growproc(n < 0): uvmdealloc(pagetable, sz, sz + n)
UvmDealloc(a, n) ==
  /\ Running(a)
  /\ proc[a].sz - n * PGSIZE >= 0
  /\ uvmdealloc_back(uvmdealloc(Cur, proc[a].pagetable, proc[a].sz,
                                proc[a].sz - n * PGSIZE), a, n)

\* the words a leaf describes: those of its frame, or those of the slot its
\* PPN field names
Described(S, pte) ==
  IF pte = NullPte THEN NoContent
  ELSE IF Has(RdPte(S, pte), PTE_V)
       THEN IF InRAM(PTE2PA(RdPte(S, pte))) THEN S.mem[PTE2PA(RdPte(S, pte)) \div PGSIZE]
            ELSE NoContent
  ELSE IF Has(RdPte(S, pte), PTE_SWAP) /\ PTE2PPN(RdPte(S, pte)) \in Slots
       THEN S.swapdisk[PTE2PPN(RdPte(S, pte))]
  ELSE NoContent

DescribedImage(S, pagetable, sz) ==
  [i \in 0 .. (sz \div PGSIZE) - 1 |-> Described(S, Leaf(S, pagetable, i * PGSIZE))]

\* uvmcopy(old, new, sz) took B to A and returned -1
copy_failed_seen(B, A, old, new, sz) ==
  {IF NothingAbove(A, new, 0) THEN "copy: rolled back" ELSE "copy: bad rollback",
   IF DescribedImage(A, old, sz) = DescribedImage(B, old, sz)
   THEN "copy: parent kept" ELSE "copy: parent changed"}

\* fork(): uvmcopy(p->pagetable, np->pagetable, p->sz) into a fresh child
UvmCopy(p, c) ==
  /\ Running(p) /\ Running(c) /\ p # c
  /\ proc[c].sz = 0 /\ proc[p].sz > 0
  /\ LET Forked(u, pre) ==
           Done(SeenAll(u.s, IF u.r = 0 THEN {}
                             ELSE copy_failed_seen(Cur, u.s, proc[p].pagetable,
                                                   proc[c].pagetable, proc[p].sz)),
                [proc EXCEPT ![c].sz = IF u.r = 0 THEN proc[p].sz ELSE 0], kheld,
                IF u.r # 0 THEN "failed"
                ELSE IF Image(u.s, proc[c].pagetable, proc[p].sz) = pre THEN "ok"
                ELSE "bad",
                IF u.r = 0 THEN [parent |-> p, child |-> c, img |-> pre] ELSE NoFork)
     IN Forked(uvmcopy(Cur, proc[p].pagetable, proc[c].pagetable, proc[p].sz),
               Image(Cur, proc[p].pagetable, proc[p].sz))

\* exit() and wait(): freeproc() -> proc_freepagetable(): uvmfree(pagetable, sz)
uvmfree_back(S, a) ==
  Done(Seen(S, unmap_seen(Cur, S, proc[a].pagetable, 0, proc[a].sz)),
       [proc EXCEPT ![a] = NoProc], kheld, "none", DropFork(a))

UvmFree(a) ==
  /\ panicked = "" /\ booted /\ proc[a].pagetable # 0
  /\ uvmfree_back(uvmfree(Cur, proc[a].pagetable, proc[a].sz), a)

\* exec(): uvmclear on the page below the stack
UvmClear(a, page) ==
  /\ Running(a)
  /\ page * PGSIZE < proc[a].sz
  /\ Done(uvmclear(Cur, proc[a].pagetable, page * PGSIZE), proc, kheld, "none", g_fork)

\* what the MMU needs to let user code touch the page
PteAccessible(S, pte, write) ==
  /\ pte # NullPte
  /\ Has(RdPte(S, pte), PTE_V)
  /\ Has(RdPte(S, pte), PTE_U)
  /\ Has(RdPte(S, pte), IF write THEN PTE_W ELSE PTE_R)
  /\ InRAM(PTE2PA(RdPte(S, pte)))

Accessible(S, pagetable, va, write) == PteAccessible(S, Leaf(S, pagetable, va), write)

\* a load or a store of the MMU through pte: the Access bit is set (the Dirty
\* bit, which the kernel never reads, is left out)
Touch(S, pte) == WrPte(S, pte, SetBit(RdPte(S, pte), PTE_A))
Poke(S, pte, word) ==
  [Touch(S, pte) EXCEPT !.mem[PTE2PA(RdPte(S, pte)) \div PGSIZE][0] = word]

\* a user load of the first word of a page
UserLoad(a, page) ==
  /\ Running(a)
  /\ Accessible(Cur, proc[a].pagetable, page * PGSIZE, FALSE)
  /\ Done(Touch(Cur, Leaf(Cur, proc[a].pagetable, page * PGSIZE)),
          proc, kheld, "none", g_fork)

\* a user store to the first word of a page
UserStore(a, page, word) ==
  /\ Running(a)
  /\ Accessible(Cur, proc[a].pagetable, page * PGSIZE, TRUE)
  /\ Done(Poke(Cur, Leaf(Cur, proc[a].pagetable, page * PGSIZE), word),
          proc, kheld, "none", ParentWrote(a))

\* the kernel's memory, lists and bitmap are the same in A and B
KernelSame(A, B) ==
  /\ A.freelist = B.freelist /\ A.mem = B.mem /\ A.pages = B.pages
  /\ A.lru_head = B.lru_head /\ A.lru_tail = B.lru_tail
  /\ A.num_lru_pages = B.num_lru_pages
  /\ A.swap_bitmap = B.swap_bitmap /\ A.swapdisk = B.swapdisk

\* the fault handler's swap-in of the page behind PTE q, held against its
\* postcondition: the PTE resident with the R/W/X/U bits it had, on a frame
\* that is allocated, the slot named by the PTE free, the frame linked in the
\* LRU list under this page table and the page's address
fault_swapin(B, t, q, pagetable, va) ==
  IF t.killed THEN "fault: no frame"
  ELSE IF /\ Has(RdPte(t.s, q), PTE_V) /\ ~Has(RdPte(t.s, q), PTE_SWAP)
          /\ MaskBits(PTE_FLAGS(RdPte(t.s, q)), RWXU)
               = MaskBits(PTE_FLAGS(RdPte(B, q)), RWXU)
          /\ PTE2PPN(RdPte(t.s, q)) \in Frames
          /\ ~InSeq(PTE2PA(RdPte(t.s, q)), t.s.freelist)
          /\ PTE2PPN(RdPte(B, q)) \in Slots
          /\ t.s.swap_bitmap[PTE2PPN(RdPte(B, q))] = 0
          /\ t.s.pages[PTE2PPN(RdPte(t.s, q))].in_lru
          /\ t.s.pages[PTE2PPN(RdPte(t.s, q))].pagetable = pagetable
          /\ t.s.pages[PTE2PPN(RdPte(t.s, q))].vaddr = PGROUNDDOWN(va)
       THEN "fault: swapped in" ELSE "fault: bad swap-in"

\* a fault that is not to be served: the process is killed and the kernel's
\* state is left as it was
fault_kill(B, t) ==
  IF t.killed /\ KernelSame(t.s, B) THEN "fault: killed" ELSE "fault: bad kill"

fault_outcome(B, t, q, pagetable, va) ==
  (IF q # NullPte /\ Has(RdPte(B, q), PTE_SWAP)
   THEN {fault_swapin(B, t, q, pagetable, va)} ELSE {})
  \cup
  (IF q = NullPte \/ ~Has(RdPte(B, q), PTE_SWAP) \/ ~Has(RdPte(B, q), PTE_U)
   THEN {fault_kill(B, t)} ELSE {})

userfault_back(t, a, q, va) ==
  Done(SeenAll(t.s, fault_outcome(Cur, t, q, proc[a].pagetable, va)),
       [proc EXCEPT ![a].killed = t.killed], kheld, "none", g_fork)

\* a load or store page fault at va = page * PGSIZE + off
UserFault(a, page, off) ==
  /\ Running(a)
  /\ ~Accessible(Cur, proc[a].pagetable, page * PGSIZE, FALSE)
  /\ userfault_back(usertrap(Cur, proc[a].pagetable, page * PGSIZE + off), a,
                    Leaf(Cur, proc[a].pagetable, page * PGSIZE + off),
                    page * PGSIZE + off)

\* walkaddr's swap-in of the page behind PTE q, seen through copyin and held
\* against its postcondition: the word read is the page's, the frame holds
\* what was written out, the slot named by the PTE is free, the PTE is
\* resident with the R/W/X/U bits it had and the frame is linked in the LRU
\* list under this page table and address
walkaddr_swapin_seen(B, c, q, pagetable, va) ==
  IF c.r # 0 THEN "walkaddr: no frame"
  ELSE IF /\ Has(RdPte(c.s, q), PTE_V) /\ ~Has(RdPte(c.s, q), PTE_SWAP)
          /\ MaskBits(PTE_FLAGS(RdPte(c.s, q)), RWXU)
               = MaskBits(PTE_FLAGS(RdPte(B, q)), RWXU)
          /\ PTE2PPN(RdPte(c.s, q)) \in Frames
          /\ ~InSeq(PTE2PA(RdPte(c.s, q)), c.s.freelist)
          /\ c.s.mem[PTE2PPN(RdPte(c.s, q))] = B.g_out[q]
          /\ c.word = B.g_out[q][0]
          /\ PTE2PPN(RdPte(B, q)) \in Slots
          /\ c.s.swap_bitmap[PTE2PPN(RdPte(B, q))] = 0
          /\ c.s.pages[PTE2PPN(RdPte(c.s, q))].in_lru
          /\ c.s.pages[PTE2PPN(RdPte(c.s, q))].pagetable = pagetable
          /\ c.s.pages[PTE2PPN(RdPte(c.s, q))].vaddr = va
       THEN "walkaddr: swapped in" ELSE "walkaddr: bad swap-in"

\* walkaddr seen through copyin, which fails exactly when walkaddr returns 0
walkaddr_seen(B, c, q, pagetable, va) ==
  (IF \/ q = NullPte
      \/ ~Has(RdPte(B, q), PTE_V) /\ ~Has(RdPte(B, q), PTE_SWAP)
      \/ ~Has(RdPte(B, q), PTE_U)
   THEN {IF c.r # 0 THEN "walkaddr: refused" ELSE "walkaddr: bad address"} ELSE {})
  \cup
  (IF /\ q # NullPte
      /\ ~Has(RdPte(B, q), PTE_V) /\ Has(RdPte(B, q), PTE_SWAP)
      /\ Has(RdPte(B, q), PTE_U)
   THEN {walkaddr_swapin_seen(B, c, q, pagetable, va)} ELSE {})

copyin_back(c, a, q, va) ==
  Done(SeenAll(c.s, walkaddr_seen(Cur, c, q, proc[a].pagetable, va)),
       proc, kheld, "none", g_fork)

\* a system call reading user memory
CopyIn(a, page) ==
  /\ Running(a)
  /\ copyin_back(copyin(Cur, proc[a].pagetable, page * PGSIZE), a,
                 Leaf(Cur, proc[a].pagetable, page * PGSIZE), page * PGSIZE)

\* copyout to a page that is swapped out and mapped writable for the user:
\* it is to succeed with the page resident and the word stored in it
copyout_seen(B, c, q, word) ==
  IF /\ q # NullPte
     /\ ~Has(RdPte(B, q), PTE_V) /\ Has(RdPte(B, q), PTE_SWAP)
     /\ Has(RdPte(B, q), PTE_U) /\ Has(RdPte(B, q), PTE_W)
  THEN {IF /\ c.r = 0
           /\ Has(RdPte(c.s, q), PTE_V)
           /\ PTE2PPN(RdPte(c.s, q)) \in Frames
           /\ c.s.mem[PTE2PPN(RdPte(c.s, q))][0] = word
        THEN "copyout: swapped in" ELSE "copyout: bad"}
  ELSE {}

copyout_back(c, a, q, word) ==
  Done(SeenAll(c.s, copyout_seen(Cur, c, q, word)), proc, kheld, "none",
       IF c.r = 0 THEN ParentWrote(a) ELSE g_fork)

\* a system call writing user memory
CopyOut(a, page, word) ==
  /\ Running(a)
  /\ copyout_back(copyout(Cur, proc[a].pagetable, page * PGSIZE, word), a,
                  Leaf(Cur, proc[a].pagetable, page * PGSIZE), word)

\* kalloc() for a pipe buffer or a kernel stack
KernelAlloc ==
  /\ panicked = "" /\ booted
  /\ Cardinality(kheld) < MaxKHeld
  /\ LET Got(k) ==
           Done(k.s, proc, IF k.r = 0 THEN kheld ELSE kheld \cup {k.r}, "none", g_fork)
     IN Got(kalloc(Cur))

KernelFree(pa) ==
  /\ panicked = "" /\ pa \in kheld
  /\ Done(kfree(Cur, pa), proc, kheld \ {pa}, "none", g_fork)

Next ==
  \/ UserInit
  \/ \E a \in Procs : UvmCreate(a)
  \/ \E a \in Procs, n \in 1 .. MaxPages : UvmAlloc(a, n)
  \/ \E a \in Procs, n \in 1 .. MaxPages : UvmDealloc(a, n)
  \/ \E p \in Procs, c \in Procs : UvmCopy(p, c)
  \/ \E a \in Procs : UvmFree(a)
  \/ \E a \in Procs, page \in Idx : UvmClear(a, page)
  \/ \E a \in Procs, page \in Idx : UserLoad(a, page)
  \/ \E a \in Procs, page \in Idx, word \in 1 .. MaxVal : UserStore(a, page, word)
  \/ \E a \in Procs, page \in Idx, off \in {0, FaultOff} : UserFault(a, page, off)
  \/ \E a \in Procs, page \in Idx : CopyIn(a, page)
  \/ \E a \in Procs, page \in Idx, word \in 1 .. MaxVal : CopyOut(a, page, word)
  \/ KernelAlloc
  \/ \E pa \in kheld : KernelFree(pa)

Spec == Init /\ [][Next]_vars

----------------------------------------------------------------------------
(* The LRU list on its own: lru_add and lru_remove called as mappages,      *)
(* uvmunmap, select_victim and evictpage call them, from the empty list.    *)

MaxLru == 3
LruFrames == (PhysTopFrame - MaxLru) .. (PhysTopFrame - 1)
LruRoot == EndPA

\* what one lru_remove call did to the list: "unlinked" is a linked frame taken
\* out with the others left in order, its entry cleared and the count one
\* down, "noop" an unlinked frame left alone with nothing changed
lru_remove_outcome(B, A, p) ==
  IF B.pages[p].in_lru
  THEN IF /\ LruOrder(A) = Without(LruOrder(B), p)
          /\ LruOrderBack(A) = Without(LruOrderBack(B), p)
          /\ Linked(A) = Linked(B) \ {p}
          /\ A.pages[p].vaddr = 0
          /\ A.pages[p].prev = Null /\ A.pages[p].next = Null
          /\ A.num_lru_pages = B.num_lru_pages - 1
       THEN "lru_remove: unlinked" ELSE "lru_remove: bad"
  ELSE IF /\ A.pages = B.pages /\ A.lru_head = B.lru_head /\ A.lru_tail = B.lru_tail
          /\ A.num_lru_pages = B.num_lru_pages
       THEN "lru_remove: noop" ELSE "lru_remove: bad"

LruAdded(S) == Done(S, proc, kheld, "none", g_fork)

LruAdd(f, use_lock) ==
  /\ panicked = ""
  /\ LruAdded(lru_add(Cur, f, LruRoot, (f - PhysTopFrame + MaxLru) * PGSIZE, use_lock))

LruRemoved(S, f) == Done(Seen(S, lru_remove_outcome(Cur, S, f)), proc, kheld, "none", g_fork)

LruRemove(f, use_lock) ==
  /\ panicked = ""
  /\ LruRemoved(lru_remove(Cur, f, use_lock), f)

LruNext ==
  \/ \E f \in LruFrames, use_lock \in BOOLEAN : LruAdd(f, use_lock)
  \/ \E f \in LruFrames, use_lock \in BOOLEAN : LruRemove(f, use_lock)

SpecLru == Init /\ [][LruNext]_vars

----------------------------------------------------------------------------
(* evictpage() step by step on several harts.  Each step is one critical   *)
(* section or one access of evictpage; the harts interleave between them.  *)
(* A hart enters from a kalloc() that found the free-list empty.           *)

RECURSIVE ev_drain(_, _)

ev_drained(k, got) ==
  IF k.s.panicked # "" \/ k.r = 0 THEN [s |-> k.s, got |-> got]
  ELSE ev_drain(k.s, got \cup {k.r})

\* kalloc() by other kernel code until the free-list is empty
ev_drain(S, got) ==
  IF S.panicked # "" \/ S.freelist = <<>> THEN [s |-> S, got |-> got]
  ELSE ev_drained(kalloc(S), got)

\* user loads that set the Access bit of the pages in acc
RECURSIVE ev_touch(_, _, _)
ev_touch(S, pagetable, acc) ==
  IF S.panicked # "" \/ acc = {} THEN S
  ELSE ev_touch(Touch(S, Leaf(S, pagetable, (CHOOSE i \in acc : TRUE) * PGSIZE)),
                pagetable, acc \ {CHOOSE i \in acc : TRUE})

ev_grown(u, pagetable, acc) == ev_drain(ev_touch(u.s, pagetable, acc), {})

ev_first(S, pagetable, n, acc) ==
  ev_grown(uvmalloc(S, pagetable, PGSIZE, n * PGSIZE, PTE_W), pagetable, acc)

ev_installed(d, pagetable, n) ==
  Done(d.s, [proc EXCEPT ![1] = [pagetable |-> pagetable, sz |-> n * PGSIZE,
                                 killed |-> FALSE]],
       d.got, "none", g_fork)

ev_made(c, n, acc) ==
  IF c.s.panicked # "" \/ c.r = 0 THEN Done(Panic(c.s, "userinit"), proc, kheld, "none", g_fork)
  ELSE ev_installed(ev_first(uvmfirst(c.s, c.r), c.r, n, acc), c.r, n)

\* userinit, growth of the first process to n pages, loads from the pages in
\* acc, and kernel allocations that use up the free frames
EvictSetup(n, acc) ==
  /\ panicked = "" /\ ~booted
  /\ ev_made(uvmcreate(Cur), n, acc)

\* the end of a step of a hart
EvDone(S, newharts, newkheld) ==
  IF S.panicked # ""
  THEN /\ Install([Boot EXCEPT !.panicked = S.panicked, !.g_ev = S.g_ev])
       /\ proc' = [a \in Procs |-> NoProc]
       /\ kheld' = {}
       /\ harts' = [h \in Harts |-> IdleHart]
       /\ ops' = 0
       /\ UNCHANGED <<booted, g_copy, g_fork>>
  ELSE /\ Install(S)
       /\ harts' = newharts
       /\ kheld' = newkheld
       /\ UNCHANGED <<proc, booted, g_copy, g_fork, ops>>

\* struct page *victim = select_victim(); if (!victim) return 0;
ev_selected(sv, h) ==
  EvDone(sv.s,
         [harts EXCEPT ![h] = IF sv.r = Null THEN IdleHart
                              ELSE [IdleHart EXCEPT !.pc = "selected", !.victim = sv.r]],
         kheld)

EvSelect(h) ==
  /\ panicked = "" /\ booted /\ harts[h].pc = "idle" /\ freelist = <<>>
  /\ ev_selected(select_victim(Cur), h)

\* the copies of victim->pagetable and victim->vaddr, walk, pa = PTE2PA(*pte)
ev_walked(w, h) ==
  EvDone(w.s,
         [harts EXCEPT ![h] =
            IF w.r = NullPte \/ ~Has(RdPte(w.s, w.r), PTE_V) THEN IdleHart
            ELSE [@ EXCEPT !.pc = "walked", !.pte = w.r,
                           !.pa = PTE2PA(RdPte(w.s, w.r)),
                           !.page = IF InRAM(PTE2PA(RdPte(w.s, w.r)))
                                    THEN w.s.mem[PTE2PA(RdPte(w.s, w.r)) \div PGSIZE]
                                    ELSE <<>>]],
         kheld)

EvWalk(h) ==
  /\ panicked = "" /\ harts[h].pc = "selected"
  /\ IF AboveMAXVA(pages[harts[h].victim].vaddr)
     THEN EvDone(Panic(Cur, "evictpage"), harts, kheld)
     ELSE ev_walked(walk(Cur, pages[harts[h].victim].pagetable,
                         pages[harts[h].victim].vaddr, FALSE), h)

\* 1. int blkno = allocswap();
ev_allocated(sl, h) ==
  EvDone(sl.s, [harts EXCEPT ![h].pc = "allocated", ![h].blkno = sl.r], kheld)

EvAlloc(h) ==
  /\ panicked = "" /\ harts[h].pc = "walked"
  /\ ev_allocated(allocswap(Cur), h)

\* 2. swapwrite(pa, blkno) and the statistics
EvWrite(h) ==
  /\ panicked = "" /\ harts[h].pc = "allocated"
  /\ EvDone(swap_stats(evict_note(swapwrite(Cur, harts[h].pa, harts[h].blkno),
                                  harts[h].pte, harts[h].pa)),
            [harts EXCEPT ![h].pc = "written"], kheld)

\* 3. lru_remove(victim, LRU_LOCKED)
EvUnlink(h) ==
  /\ panicked = "" /\ harts[h].pc = "written"
  /\ EvDone(lru_remove(Cur, harts[h].victim, TRUE),
            [harts EXCEPT ![h].pc = "unlinked"], kheld)

\* 4. the PTE rewrite and sfence_vma() under pte_lock
EvRewrite(h) ==
  /\ panicked = "" /\ harts[h].pc = "unlinked"
  /\ EvDone(evict_rewrite(Cur, harts[h].pte, harts[h].blkno),
            [harts EXCEPT ![h].pc = "rewritten"], kheld)

\* 5. kfree((void*)pa)
EvFree(h) ==
  /\ panicked = "" /\ harts[h].pc = "rewritten"
  /\ EvDone(kfree(Cur, harts[h].pa), [harts EXCEPT ![h].pc = "freed"], kheld)

\* 6. the reset of pages[pa / PGSIZE]; return 1
\* what the reset did to an entry whose frame has left the free-list again
ev_reset_seen(B, A, pa) ==
  IF A.panicked # "" \/ InSeq(pa, B.freelist) THEN A
  ELSE [A EXCEPT !.g_ev = @ \cup
          IF A.pages[pa \div PGSIZE] = B.pages[pa \div PGSIZE]
          THEN {"reset: new owner kept"}
          ELSE {"reset: new owner clobbered"}]

ev_reset(e, h) ==
  EvDone(ev_reset_seen(Cur, e.s, harts[h].pa), [harts EXCEPT ![h].pc = "retry"], kheld)

EvReset(h) ==
  /\ panicked = "" /\ harts[h].pc = "freed"
  /\ ev_reset(evict_reset(Cur, harts[h].pa \div PGSIZE), h)

\* goto retry in kalloc(): the frame is popped, or evictpage() is called again
ev_retried(k, h) ==
  EvDone(k.s, [harts EXCEPT ![h] = IdleHart], kheld \cup {k.r})

EvRetry(h) ==
  /\ panicked = "" /\ harts[h].pc = "retry"
  /\ IF freelist = <<>> THEN EvDone(Cur, [harts EXCEPT ![h] = IdleHart], kheld)
     ELSE ev_retried(kalloc_pop(acquire(Cur, "kmem"), "ok"), h)

\* growproc on a hart that is not in evictpage: uvmalloc of one more page
\* for the first process, while a frame is on the free-list
ev_grow_done(u) ==
  IF u.s.panicked # "" THEN EvDone(u.s, harts, kheld)
  ELSE /\ Install(u.s)
       /\ proc' = [proc EXCEPT ![1].sz = IF u.r = 0 THEN @ ELSE u.r]
       /\ UNCHANGED <<harts, kheld, booted, g_copy, g_fork, ops>>

EvGrow(h) ==
  /\ panicked = "" /\ booted /\ harts[h].pc = "idle" /\ freelist # <<>>
  /\ proc[1].sz + PGSIZE <= MaxPages * PGSIZE
  /\ ev_grow_done(uvmalloc(Cur, proc[1].pagetable, proc[1].sz, proc[1].sz + PGSIZE, PTE_W))

EvictNext ==
  \/ \E n \in 1 .. MaxPages : \E acc \in SUBSET (0 .. n - 1) : EvictSetup(n, acc)
  \/ \E h \in Harts : EvSelect(h)
  \/ \E h \in Harts : EvWalk(h)
  \/ \E h \in Harts : EvAlloc(h)
  \/ \E h \in Harts : EvWrite(h)
  \/ \E h \in Harts : EvUnlink(h)
  \/ \E h \in Harts : EvRewrite(h)
  \/ \E h \in Harts : EvFree(h)
  \/ \E h \in Harts : EvReset(h)
  \/ \E h \in Harts : EvRetry(h)
  \/ \E h \in Harts : EvGrow(h)

SpecEvict == Init /\ [][EvictNext]_vars

----------------------------------------------------------------------------
(* The page tables and the LRU list as the properties see them *)

Roots == {proc[a].pagetable : a \in {b \in Procs : proc[b].pagetable # 0}}

\* the frames the valid entries of a page-table node point to
NodeKids(n) ==
  {PTE2PA(mem[n \div PGSIZE][i]) : i \in {j \in Idx : Has(mem[n \div PGSIZE][j], PTE_V)}}
L1Nodes(r) == {n \in NodeKids(r) : InRAM(n)}
L0Nodes(r) == UNION {{n \in NodeKids(m) : InRAM(n)} : m \in L1Nodes(r)}
InnerNodes == UNION {L1Nodes(r) \cup L0Nodes(r) : r \in Roots}

\* the leaf PTEs of an address space, and of all of them
LeafPtrs(r) == [pa : L0Nodes(r), idx : Idx]
AllLeafPtrs == UNION {LeafPtrs(r) : r \in Roots}
ValidLeaves(r) == {q \in LeafPtrs(r) : Has(RdPte(Cur, q), PTE_V)}
SwappedLeaves(r) ==
  {q \in LeafPtrs(r) : ~Has(RdPte(Cur, q), PTE_V) /\ Has(RdPte(Cur, q), PTE_SWAP)}
AllValidLeaves == UNION {ValidLeaves(r) : r \in Roots}
AllSwappedLeaves == UNION {SwappedLeaves(r) : r \in Roots}

LeafFrames(r) == {PTE2PA(RdPte(Cur, q)) : q \in ValidLeaves(r)}
LeafSlots(r) == {PTE2PPN(RdPte(Cur, q)) : q \in SwappedLeaves(r)}

FreeFrames == {freelist[i] : i \in 1 .. Len(freelist)}
AllLeafFrames == UNION {LeafFrames(r) : r \in Roots}

----------------------------------------------------------------------------
(* Properties *)

\* C1: swap round trip.  A page that the page-fault path or walkaddr swaps
\* back in holds exactly what it held when evictpage wrote it out.
C1_SwapRoundTrip == g_rt # "bad"

\* C2: when uvmcopy returns success, every page of the child holds what the
\* parent's page held when uvmcopy was called, also when a kalloc inside
\* uvmcopy had to evict pages.
C2_CopyFaithful == g_copy # "bad"

\* C3: fork isolation.  After a successful uvmcopy parent and child share no
\* frame and no swap slot, and as long as the parent does not write, every page
\* of the parent holds what it held at the fork, whatever the child writes and
\* whatever is evicted and swapped in.
C3_ForkIsolation ==
  g_fork # NoFork =>
    /\ LeafFrames(proc[g_fork.parent].pagetable)
         \cap LeafFrames(proc[g_fork.child].pagetable) = {}
    /\ LeafSlots(proc[g_fork.parent].pagetable)
         \cap LeafSlots(proc[g_fork.child].pagetable) = {}
    /\ Image(Cur, proc[g_fork.parent].pagetable, proc[g_fork.parent].sz) = g_fork.img

C5_SwapAccounting ==
  /\ \A q \in AllSwappedLeaves :
       /\ PTE2PPN(RdPte(Cur, q)) \in Slots
       /\ swap_bitmap[PTE2PPN(RdPte(Cur, q))] = 1
  /\ \A s \in Slots :
       swap_bitmap[s] = 1 =>
         Cardinality({q \in AllSwappedLeaves : PTE2PPN(RdPte(Cur, q)) = s}) = 1

\* C6: for every frame f with in_lru=1, walking vaddr(f) in pagetable(f) gives
\* a leaf PTE with V=1 and U=1 whose PPN is f.
C6_LruEntryMapped ==
  \A f \in PageIdx :
    pages[f].in_lru =>
      /\ Leaf(Cur, pages[f].pagetable, pages[f].vaddr) # NullPte
      /\ Has(RdPte(Cur, Leaf(Cur, pages[f].pagetable, pages[f].vaddr)), PTE_V)
      /\ Has(RdPte(Cur, Leaf(Cur, pages[f].pagetable, pages[f].vaddr)), PTE_U)
      /\ PTE2PPN(RdPte(Cur, Leaf(Cur, pages[f].pagetable, pages[f].vaddr))) = f

\* C7: LRU population.  The nodes met from the head along next, the nodes met
\* from the tail along prev, num_lru_pages and the entries with in_lru=1 are
\* equally many.
C7_LruPopulation ==
  /\ Len(LruOrder(Cur)) = num_lru_pages
  /\ Len(LruOrderBack(Cur)) = num_lru_pages
  /\ Cardinality(Linked(Cur)) = num_lru_pages

\* C8: no metadata entry has is_page_table=1 and in_lru=1 together: a frame
\* that holds a page-table node is not linked in the LRU list.
C8_NodeNotInLru ==
  /\ \A f \in PageIdx : ~(pages[f].is_page_table /\ pages[f].in_lru)
  /\ \A n \in Roots \cup InnerNodes : ~pages[n \div PGSIZE].in_lru

\* page-table nodes are marked and user pages are linked while a frame that
\* an eviction took from the list has been handed out again
C8_Witness ==
  /\ panicked = ""
  /\ "evicted" \in g_k
  /\ \E f \in PageIdx : pages[f].is_page_table
  /\ Linked(Cur) # {}

\* C9: kalloc returns null only when the free-list is empty and its evictpage
\* call failed, retries whenever evictpage succeeds, and a non-null result was
\* on the free-list and is on it no more.
C9_KallocContract == "bad" \notin g_k

\* in one handler a kalloc had to evict and was retried, and a kalloc gave up
C9_Witness == panicked = "" /\ "evicted" \in g_k /\ "null" \in g_k

\* C10: lru_add of a linked frame moves it to the tail and keeps the frames,
\* their order and the count; lru_add of an unlinked frame links it at the tail
\* and adds one to the count; so a second lru_add changes nothing the first
\* did not.
C10_AddRelocates == "bad" \notin g_add

\* C11: lru_remove on a linked frame, wherever it stands in the list, takes it
\* out of the list in both directions, keeps the other frames in their order,
\* clears in_lru, vaddr and the links of the frame and lowers the count by
\* exactly one; on an unlinked frame it changes nothing.
C11_RemoveUnlinks == "lru_remove: bad" \notin g_ev

\* C12: a page fault on a swap-encoded PTE for which a frame is found leaves
\* the PTE valid, not swap-encoded, with its R/W/X/U bits, on the new frame;
\* the slot is free and the frame is linked in the LRU list with the faulting
\* process's page table and the page's virtual address.
C12_FaultSwapsIn == "fault: bad swap-in" \notin g_ev

\* C13: a page fault whose PTE is absent or not swap-encoded, a guard page
\* included, only kills the faulting process: memory, PTEs, the LRU list, the
\* swap bitmap and the free-list are as before.
C13_FaultKills == "fault: bad kill" \notin g_ev

\* C14: walkaddr returns 0 when the PTE is absent, is neither valid nor
\* swap-encoded, or has no User bit, for a resident page and for a swapped one.
C14_WalkaddrRefuses == "walkaddr: bad address" \notin g_ev

\* C15: walkaddr on a swapped-out user page, at any virtual address, 0
\* included, gives a frame with the page's contents, frees the slot, makes the
\* PTE a resident leaf with its R/W/X/U bits and links the frame in the LRU
\* list with that page table and address.
C15_WalkaddrSwapsIn == "walkaddr: bad swap-in" \notin g_ev

\* C16: copyout to a page that is mapped writable with the User bit and is
\* swapped out returns 0, with the page swapped in and the bytes stored in it.
C16_CopyoutSwapsIn == "copyout: bad" \notin g_ev

\* C17: uvmunmap with do_free over a range that holds swapped-out leaves does
\* not abort: it frees the slot of each swapped page, takes each resident
\* frame out of the LRU list and gives it back to the allocator, so
\* uvmdealloc and uvmfree complete with the frames and slots released.
C17_UnmapSwapped == panicked # "uvmunmap: not mapped" /\ "unmap: bad" \notin g_ev

\* C18: uvmalloc followed by uvmdealloc back to the old size gives back the
\* address space as it was, puts exactly the frames of the new pages on the
\* free-list and leaves no LRU entry and no slot for them; a uvmalloc that
\* fails has rolled back the same way, and uvmalloc to a smaller size changes
\* nothing and returns the old size.
C18_GrowShrink ==
  g_ev \cap {"grow: shrink aborts", "grow: not restored", "grow: bad rollback",
             "grow: bad no-op"} = {}

\* C19: a uvmcopy that fails returns -1 with the child unmapped over [0, sz):
\* no leaf, no frame of the child on the LRU list, no slot held for it, and
\* the parent's pages hold what they held before the call.
C19_CopyRollsBack ==
  /\ "copy: err" \in g_ev => panicked = ""
  /\ "copy: bad rollback" \notin g_ev
  /\ "copy: parent changed" \notin g_ev

\* C20: no operation takes a lock it already holds, none takes a lock while
\* it holds one that comes later in the order allocator, page metadata, LRU
\* list, PTE, swap bitmap, swap statistics, and every lock taken is released
\* again, so that no hart waits for a lock for ever.
C20_LockOrder ==
  /\ panicked # "acquire"
  /\ "lock: out of order" \notin g_ev
  /\ held = {}

\* C21: after a successful evictpage the victim's PTE has V = 0, SWAP = 1, the
\* R/W/X/U bits it had, and the allocated slot in its PPN field (bits 10..53).
C21_SlotInPpn ==
  /\ "evict: bad flags" \notin g_ev
  /\ "evict: slot not in PPN" \notin g_ev

\* C22: evictpage writes out, rewrites, unlinks and frees the frame, the PTE
\* and the LRU entry of the entry select_victim returned, and changes no
\* other page's PTE, frame or LRU entry.
C22_EvictsTheVictim ==
  /\ "evict: not the victim's" \notin g_ev
  /\ "evict: others changed" \notin g_ev

\* C23: an examined entry with the Access bit set has the bit cleared and is
\* moved to the tail with the pagetable and vaddr it had, the cursor going to
\* the entry that followed it.
C23_SecondChance == "clock: second chance lost" \notin g_ev

\* C24: only an entry whose PTE is a resident leaf with V = 1 and U = 1 is
\* picked by rule 3, and an entry whose PTE lacks the User bit is skipped
\* without a change to the list.
C24_VictimIsUserLeaf ==
  /\ "clock: victim without U" \notin g_ev
  /\ "clock: chance without U" \notin g_ev

\* C25: a scan of a non-empty list comes to an end, within one lap, with an
\* entry that is linked in the list.
C25_ScanTerminates ==
  /\ "clock: scanning" \notin g_ev
  /\ "clock: returned unlinked" \notin g_ev
  /\ "clock: more than a lap" \notin g_ev

\* C26: between operations the clock cursor is unset or points at an entry
\* that is linked in the LRU list.
C26_CursorLinked == clock_hand = Null \/ pages[clock_hand].in_lru

\* C28: the metadata entry of every frame that is an intermediate page-table
\* node, the entry at index pa / 4096, has is_page_table set and a null
\* vaddr, and no entry has the flag set for a frame that is not such a node.
C28_NodeMarked ==
  /\ \A n \in InnerNodes :
       pages[n \div PGSIZE].is_page_table /\ pages[n \div PGSIZE].vaddr = 0
  /\ \A f \in PageIdx : pages[f].is_page_table => f * PGSIZE \in InnerNodes

\* C29: between operations the LRU list is a well-formed ring: empty with head
\* and tail null, or head.prev = tail and tail.next = head with every linked
\* entry between two linked entries that point back at it, every linked entry
\* on the ring and no unlinked entry on it.
C29_RingWellFormed ==
  IF lru_head = Null \/ lru_tail = Null
  THEN lru_head = Null /\ lru_tail = Null /\ Linked(Cur) = {}
  ELSE /\ pages[lru_head].prev = lru_tail
       /\ pages[lru_tail].next = lru_head
       /\ \A n \in Linked(Cur) :
            /\ pages[n].next # Null /\ pages[n].prev # Null
            /\ pages[n].next \in Linked(Cur) /\ pages[n].prev \in Linked(Cur)
            /\ pages[pages[n].next].prev = n
            /\ pages[pages[n].prev].next = n
       /\ {LruOrder(Cur)[i] : i \in 1 .. Len(LruOrder(Cur))} = Linked(Cur)
       /\ {LruOrderBack(Cur)[i] : i \in 1 .. Len(LruOrderBack(Cur))} = Linked(Cur)

\* C27: while a hart is between the walk and the end of evictpage, whoever
\* reads the victim's PTE sees a resident PTE whose frame holds the page and
\* is not on the free-list, or a swapped PTE whose slot holds the page.
C27_EvictionOrder ==
  \A h \in Harts :
    harts[h].pc \in {"walked", "allocated", "written", "unlinked", "rewritten",
                     "freed", "retry"} =>
      \/ /\ Has(RdPte(Cur, harts[h].pte), PTE_V)
         /\ PTE2PA(RdPte(Cur, harts[h].pte)) = harts[h].pa
         /\ mem[harts[h].pa \div PGSIZE] = harts[h].page
         /\ ~InSeq(harts[h].pa, freelist)
      \/ /\ ~Has(RdPte(Cur, harts[h].pte), PTE_V)
         /\ Has(RdPte(Cur, harts[h].pte), PTE_SWAP)
         /\ PTE2PPN(RdPte(Cur, harts[h].pte)) \in Slots
         /\ swapdisk[PTE2PPN(RdPte(Cur, harts[h].pte))] = harts[h].page

\* C30: two harts that are inside evictpage at the same time have been given
\* different entries by select_victim.
C30_DistinctVictims ==
  \A h1 \in Harts, h2 \in Harts :
    (h1 # h2 /\ harts[h1].pc \notin {"idle", "retry"}
             /\ harts[h2].pc \notin {"idle", "retry"})
      => harts[h1].victim # harts[h2].victim

\* C31: when the frame freed by evictpage has been allocated again before
\* evictpage ends, the final reset of its pages[] entry leaves the entry as
\* the new owner set it (is_page_table, in_lru, pagetable, vaddr).
C31_ResetSparesOwner == "reset: new owner clobbered" \notin g_ev

====
